---- MODULE Spec2Model ----
(***************************************************************************)
(* codex-title: the turn state machine (historical scan and live tail of   *)
(* a session log) and the log resolution helpers of                        *)
(* src/src/codex_title/cli.py.                                             *)
(*                                                                         *)
(* Data representation.                                                    *)
(*  - An optional value (Python None or a value) is a sequence of length   *)
(*    at most one: None is <<>>, Some(x) is <<x>>.                         *)
(*  - A text (user message, shell command) is a sequence of tokens; the    *)
(*    whitespace token is " ".  A shell command is the token sequence      *)
(*    shlex.split produces.                                                *)
(*  - A tool output is a sequence of fragments, each either free text or   *)
(*    a match of one of the three exit-code patterns with its number.      *)
(*  - Times are integers (seconds).                                        *)
(***************************************************************************)
EXTENDS Integers, Sequences, FiniteSets, TLC

None == <<>>
Some(x) == <<x>>
Val(o) == o[1]
NoneStr == "None"

abs(x) == IF x < 0 THEN 0 - x ELSE x

(***************************************************************************)
(* Bounds of the model.                                                    *)
(***************************************************************************)
\* Log timestamps are drawn from 0..MaxTs.
MaxTs == 1
\* The monotonic clock of the live tail runs from 0 to MaxMono.
MaxMono == 3
\* The version-control head takes the values 0..MaxHead.
MaxHead == 1

(***************************************************************************)
(* Module-level tunables (cli.py:48-61), at their defaults.                *)
(***************************************************************************)
_IDLE_DONE_SECS == 3
_CLOCK_SKEW_SECS == 300

(***************************************************************************)
(* Texts, commands and outputs the environment produces.                   *)
(***************************************************************************)
_BOOTSTRAP_PREFIXES == {"# AGENTS.md instructions", "<environment_context>"}
_COMMAND_SEPARATORS == {";", "&&", "||", "|", "&"}
_RESUME_PREFIXES == {"/resume", "/last"}

\* str.lstrip: drop the leading whitespace tokens.
RECURSIVE lstrip(_)
lstrip(text) ==
    IF text # <<>> /\ Head(text) = " " THEN lstrip(Tail(text)) ELSE text

\* str.startswith(prefixes) on a token sequence.
startswith(text, prefixes) == text # <<>> /\ Head(text) \in prefixes

\* str.lower on a token.
lower(tok) ==
    CASE tok = "/RESUME" -> "/resume"
      [] tok = "/Last" -> "/last"
      [] OTHER -> tok

_is_bootstrap_message(text) == startswith(lstrip(text), _BOOTSTRAP_PREFIXES)

_is_resume_command(text) ==
    IF text = None \/ Val(text) = <<>> THEN FALSE
    ELSE LET s == lstrip(Val(text))
         IN  s # <<>> /\ lower(Head(s)) \in _RESUME_PREFIXES

\* Path(token).name for the tokens of the model.
PathName(tok) ==
    CASE tok = "/usr/bin/git" -> "git"
      [] tok = "/usr/bin/hub" -> "hub"
      [] OTHER -> tok

_is_git_token(token) == token = "git" \/ PathName(token) = "git"

\* tokens[idx + 1:] contains "commit" for some git token at idx.
_segment_has_git_commit(tokens) ==
    \E idx \in 1..Len(tokens) :
        /\ _is_git_token(tokens[idx])
        /\ \E j \in (idx + 1)..Len(tokens) : tokens[j] = "commit"

RECURSIVE CommandScan(_, _)
\* The loop of _command_has_git_commit over the remaining tokens, with the
\* segment collected so far.
CommandScan(tokens, segment) ==
    IF tokens = <<>> THEN _segment_has_git_commit(segment)
    ELSE IF Head(tokens) \in _COMMAND_SEPARATORS
         THEN IF _segment_has_git_commit(segment) THEN TRUE
              ELSE CommandScan(Tail(tokens), <<>>)
         ELSE CommandScan(Tail(tokens), Append(segment, Head(tokens)))

_command_has_git_commit(command) == CommandScan(command, <<>>)

\* A fragment of a tool output: pat is the pattern it matches ("exit_code":
\* "Exit code: N", "process_exit": "Process exited with code N", "json_exit":
\* '"exit_code": N', "text": none of them), code the number matched.
Frag(pat, code) == [pat |-> pat, code |-> code]

RECURSIVE FirstMatch(_, _)
\* pattern.search(output): the first fragment matching the pattern.
FirstMatch(output, pat) ==
    IF output = <<>> THEN None
    ELSE IF Head(output).pat = pat THEN Some(Head(output).code)
    ELSE FirstMatch(Tail(output), pat)

\* The patterns are tried in the order _EXIT_CODE_RE, _PROCESS_EXIT_RE,
\* _JSON_EXIT_CODE_RE; the first that matches anywhere decides.
_parse_exit_code(output) ==
    IF FirstMatch(output, "exit_code") # None THEN FirstMatch(output, "exit_code")
    ELSE IF FirstMatch(output, "process_exit") # None
         THEN FirstMatch(output, "process_exit")
    ELSE FirstMatch(output, "json_exit")

(***************************************************************************)
(* Log lines.  A parsed line is an event: type is the top-level "type",    *)
(* ptype the payload's "type", role/text the message payload (text is the  *)
(* "message" of an event_msg, or content[0]'s text of a response_item),    *)
(* call_id/status/name/cmd/output the tool payload, ts the parsed          *)
(* "timestamp" (None when absent or unparsable).  A field the line does    *)
(* not carry is NoneStr or None.                                           *)
(***************************************************************************)
Ev(type, ptype) ==
    [type |-> type, ptype |-> ptype, role |-> NoneStr, text |-> None,
     call_id |-> NoneStr, status |-> NoneStr, name |-> NoneStr,
     cmd |-> None, output |-> None, ts |-> None]

HelloText == <<"Hello">>
BootText == <<" ", "# AGENTS.md instructions", "foo">>
EnvText == <<"<environment_context>">>
ResumeText == <<" ", "/RESUME", "1">>

GitCommitCmd == <<"cd", "repo", "&&", "git", "commit", "-m", "msg">>
GitStatusCmd == <<"git", "status", "|", "grep", "commit">>

ExitZero == <<Frag("text", 0), Frag("exit_code", 0)>>
ExitOne == <<Frag("exit_code", 1), Frag("json_exit", 0)>>
NoExit == <<Frag("text", 0)>>

CallIds == {"call_1", "call_2"}

UserMessageEvents ==
    {[Ev("event_msg", "user_message") EXCEPT !.text = t] :
        t \in {Some(HelloText), Some(BootText), Some(ResumeText), None}}
    \cup
    {[Ev("response_item", "message") EXCEPT !.role = "user", !.text = t] :
        t \in {Some(HelloText), Some(EnvText), None}}

ClosingEvents ==
    {Ev("event_msg", p) : p \in {"agent_message", "assistant_message", "turn_aborted"}}
    \cup {[Ev("response_item", "message") EXCEPT !.role = "assistant"]}

OtherEvents ==
    {Ev("event_msg", "token_count"), Ev("event_msg", NoneStr),
     Ev("response_item", "reasoning"), Ev("response_item", NoneStr),
     Ev("session_meta", NoneStr)}

FunctionCallEvents ==
    {[Ev("response_item", "function_call") EXCEPT
        !.call_id = c, !.status = s, !.name = "exec_command", !.cmd = Some(k)] :
        c \in {"call_1"}, s \in {NoneStr, "completed"},
        k \in {GitCommitCmd, GitStatusCmd}}
    \cup
    {[Ev("response_item", "function_call") EXCEPT
        !.name = "exec_command", !.cmd = Some(GitCommitCmd)],
     [Ev("response_item", "function_call") EXCEPT
        !.call_id = "call_1", !.name = "apply_patch", !.cmd = Some(GitCommitCmd)],
     [Ev("response_item", "function_call") EXCEPT
        !.call_id = "call_1", !.name = "shell_command"]}

FunctionCallOutputEvents ==
    {[Ev("response_item", "function_call_output") EXCEPT
        !.call_id = c, !.output = o] :
        c \in {"call_1"}, o \in {Some(ExitZero), Some(ExitOne), Some(NoExit), None}}
    \cup
    {[Ev("response_item", "function_call_output") EXCEPT
        !.call_id = "call_2", !.output = Some(ExitZero)],
     [Ev("response_item", "function_call_output") EXCEPT !.output = Some(ExitZero)]}

CustomToolEvents ==
    {[Ev("response_item", "custom_tool_call") EXCEPT !.call_id = "call_2", !.status = s] :
        s \in {NoneStr, "completed"}}
    \cup
    {[Ev("response_item", "custom_tool_call_output") EXCEPT !.call_id = c] :
        c \in CallIds}

EventShapes ==
    UserMessageEvents \cup ClosingEvents \cup OtherEvents \cup FunctionCallEvents
    \cup FunctionCallOutputEvents \cup CustomToolEvents

TsValues == {None} \cup {Some(t) : t \in 0..MaxTs}

Events == {[e EXCEPT !.ts = t] : e \in EventShapes, t \in TsValues}

\* The state before any line was read.
NoEvent == Ev(NoneStr, NoneStr)

(***************************************************************************)
(* Event decoding.                                                         *)
(***************************************************************************)
_extract_user_text(e) ==
    IF e.type = "event_msg" /\ e.ptype = "user_message" THEN e.text
    ELSE IF e.type = "response_item" /\ e.ptype = "message" /\ e.role = "user"
         \* entry.get("text") or entry.get("input_text"): an empty text is
         \* falsy and yields no string.
         THEN IF e.text # None /\ Val(e.text) # <<>> THEN e.text ELSE None
    ELSE None

_extract_command(e) ==
    IF e.ptype # "function_call" THEN None
    ELSE IF e.name \notin {"shell_command", "exec_command"} THEN None
    ELSE e.cmd

\* The new pending-tool-call set.
_note_tool_call(e, pending_calls) ==
    IF e.ptype \in {"function_call", "custom_tool_call"}
    THEN IF e.call_id # NoneStr
         THEN IF e.status = "completed" THEN pending_calls \ {e.call_id}
              ELSE pending_calls \cup {e.call_id}
         ELSE pending_calls
    ELSE IF e.ptype \in {"function_call_output", "custom_tool_call_output"}
         THEN IF e.call_id # NoneStr THEN pending_calls \ {e.call_id}
              ELSE pending_calls
    ELSE pending_calls

\* Faulty variant of _timestamp_trustworthy: the tolerance is not applied.
_timestamp_trustworthy_AnyTs(ts, reference) == ts # None

_timestamp_trustworthy(ts, reference) ==
    IF ts = None THEN FALSE
    ELSE IF _CLOCK_SKEW_SECS <= 0 THEN TRUE
    ELSE abs(Val(ts) - reference) <= _CLOCK_SKEW_SECS

\* Faulty variant of _should_idle_done: the timeout must be exceeded, not
\* reached.
_should_idle_done_Exceeded(pending_user, real_user_seen, pending_tool_calls, last_response_activity, now, idle_timeout) ==
    IF idle_timeout <= 0 THEN FALSE
    ELSE IF ~pending_user \/ ~real_user_seen THEN FALSE
    ELSE IF pending_tool_calls # {} THEN FALSE
    ELSE IF last_response_activity = None THEN FALSE
    ELSE now - Val(last_response_activity) > idle_timeout

\* Faulty variant of _should_idle_done: open tool calls are not looked at.
_should_idle_done_IgnoringCalls(pending_user, real_user_seen, pending_tool_calls, last_response_activity, now, idle_timeout) ==
    IF idle_timeout <= 0 THEN FALSE
    ELSE IF ~pending_user \/ ~real_user_seen THEN FALSE
    ELSE IF last_response_activity = None THEN FALSE
    ELSE now - Val(last_response_activity) >= idle_timeout

_should_idle_done(pending_user, real_user_seen, pending_tool_calls, last_response_activity, now, idle_timeout) ==
    IF idle_timeout <= 0 THEN FALSE
    ELSE IF ~pending_user \/ ~real_user_seen THEN FALSE
    ELSE IF pending_tool_calls # {} THEN FALSE
    ELSE IF last_response_activity = None THEN FALSE
    ELSE now - Val(last_response_activity) >= idle_timeout

\* The commit bookkeeping shared by the scan and the live tail: the new
\* (pending_commit_calls, turn_commit_seen) after a response_item.
CommitCalls(e, pending_commit_calls) ==
    IF e.ptype = "function_call"
    THEN LET cmd == _extract_command(e)
         IN  IF cmd # None /\ Val(cmd) # <<>> /\ _command_has_git_commit(Val(cmd))
                /\ e.call_id # NoneStr
             THEN pending_commit_calls \cup {e.call_id}
             ELSE pending_commit_calls
    ELSE IF e.ptype = "function_call_output" /\ e.call_id # NoneStr
         THEN pending_commit_calls \ {e.call_id}
    ELSE pending_commit_calls

\* Faulty variant of CommitSeen: the output's exit code is not looked at.
CommitSeen_AnyExit(e, pending_commit_calls, turn_commit_seen) ==
    IF /\ e.ptype = "function_call_output"
       /\ e.call_id # NoneStr
       /\ e.call_id \in pending_commit_calls
    THEN TRUE
    ELSE turn_commit_seen

\* Faulty variant of CommitSeen: an output never confirms a commit.
CommitSeen_Never(e, pending_commit_calls, turn_commit_seen) == turn_commit_seen

CommitSeen(e, pending_commit_calls, turn_commit_seen) ==
    IF /\ e.ptype = "function_call_output"
       /\ e.call_id # NoneStr
       /\ e.call_id \in pending_commit_calls
       /\ e.output # None
       /\ _parse_exit_code(Val(e.output)) = Some(0)
    THEN TRUE
    ELSE turn_commit_seen

(***************************************************************************)
(* The historical scan: _collect_log_state.  A scan state is the record of *)
(* the function's locals.                                                  *)
(***************************************************************************)
\* The locals before the first line, for the given history_seen.
ScanInit(history_seen) ==
    [pending_user |-> FALSE, seen_assistant |-> FALSE,
     last_user_ts |-> None, last_assistant_ts |-> None,
     real_user_seen |-> history_seen,
     pending_commit_calls |-> {}, pending_tool_calls |-> {},
     turn_commit_seen |-> FALSE, last_turn_commit |-> FALSE,
     response_seen |-> FALSE, last_response_ts |-> None]

note_response(s, ts) ==
    [s EXCEPT !.response_seen = TRUE,
              !.last_response_ts = IF ts # None THEN ts ELSE @]

\* Faulty variant of ScanUserMessage: the tool calls of the turn before
\* stay pending.
ScanUserMessage_KeepsCalls(s, e) ==
    [s EXCEPT !.real_user_seen = TRUE, !.pending_user = TRUE,
              !.response_seen = FALSE,
              !.turn_commit_seen = FALSE, !.pending_commit_calls = {},
              !.last_user_ts = IF e.ts # None THEN e.ts ELSE @]

\* A user message opens a turn (lines 579-587).
ScanUserMessage(s, e) ==
    [s EXCEPT !.real_user_seen = TRUE, !.pending_user = TRUE,
              !.response_seen = FALSE, !.pending_tool_calls = {},
              !.turn_commit_seen = FALSE, !.pending_commit_calls = {},
              !.last_user_ts = IF e.ts # None THEN e.ts ELSE @]

\* Faulty variant of ScanCloseTurn: the closing line's timestamp is not
\* recorded.
ScanCloseTurn_NoTimestamp(s, e) ==
    [s EXCEPT !.pending_user = FALSE, !.seen_assistant = TRUE,
              !.last_turn_commit = s.turn_commit_seen]

\* An assistant or agent message, or a turn abort, closes the turn
\* (lines 605-609 and 618-622).
ScanCloseTurn(s, e) ==
    [s EXCEPT !.pending_user = FALSE, !.seen_assistant = TRUE,
              !.last_turn_commit = s.turn_commit_seen,
              !.last_assistant_ts = IF e.ts # None THEN e.ts ELSE @]

\* The response_item branch (lines 588-612).
ScanResponseItem(s, e) ==
    LET s1 == [s EXCEPT
                 !.pending_tool_calls = _note_tool_call(e, @),
                 !.pending_commit_calls = CommitCalls(e, @),
                 !.turn_commit_seen = CommitSeen(e, s.pending_commit_calls, @)]
    IN  IF e.ptype = "message"
        THEN IF e.role = "assistant"
             THEN note_response(ScanCloseTurn(s1, e), e.ts)
             ELSE s1
        ELSE IF e.ptype # NoneStr THEN note_response(s1, e.ts)
        ELSE s1

\* The event_msg branch (lines 613-622).
ScanEventMsg(s, e) ==
    LET s1 == IF e.ptype # NoneStr /\ e.ptype # "user_message"
              THEN note_response(s, e.ts) ELSE s
    IN  IF e.ptype \in {"agent_message", "assistant_message", "turn_aborted"}
        THEN ScanCloseTurn(s1, e)
        ELSE s1

\* Faulty variant of ScanEvent: a bootstrap message opens a turn like any
\* user message.
ScanEvent_BootstrapCounted(s, e) ==
    IF _extract_user_text(e) # None THEN ScanUserMessage(s, e)
    ELSE IF e.type = "response_item" THEN ScanResponseItem(s, e)
    ELSE IF e.type = "event_msg" THEN ScanEventMsg(s, e)
    ELSE s

\* One iteration of the loop over the lines (lines 568-622).
ScanEvent(s, e) ==
    LET user_text == _extract_user_text(e)
    IN  IF user_text # None
        THEN IF ~s.real_user_seen /\ _is_bootstrap_message(Val(user_text))
             THEN s
             ELSE ScanUserMessage(s, e)
        ELSE IF e.type = "response_item" THEN ScanResponseItem(s, e)
        ELSE IF e.type = "event_msg" THEN ScanEventMsg(s, e)
        ELSE s

\* Faulty variant of ScanIdleFallback: the fallback never closes a turn.
ScanIdleFallback_Never(s, t) == s

\* The idle fallback after the loop (lines 623-633), with time.time() = t.
ScanIdleFallback(s, t) ==
    IF /\ s.pending_user /\ s.real_user_seen /\ s.response_seen
       /\ s.pending_tool_calls = {}
       /\ _IDLE_DONE_SECS > 0 /\ s.last_response_ts # None
       /\ _timestamp_trustworthy(s.last_response_ts, t)
       /\ t - Val(s.last_response_ts) >= _IDLE_DONE_SECS
    THEN [s EXCEPT !.pending_user = FALSE, !.seen_assistant = TRUE,
                   !.last_turn_commit = s.turn_commit_seen,
                   !.last_assistant_ts =
                       IF @ = None THEN s.last_response_ts ELSE @]
    ELSE s

(***************************************************************************)
(* Version control.  git_log is the set of commit times of the repository, *)
(* head the number of commits made while the log is tailed.                *)
(***************************************************************************)
\* git log --since=start --until=end -1 prints a commit.
_git_commit_in_range(git_log, start_ts, end_ts) ==
    LET lo == IF end_ts < start_ts THEN end_ts ELSE start_ts
        hi == IF end_ts < start_ts THEN start_ts ELSE end_ts
    IN  \E c \in git_log : lo <= c /\ c <= hi

\* The title _initial_title_from_log derives from the scan's result r
\* (lines 655-670): None, or the title.  root: _git_repo_root found a
\* repository.
InitialTitle(r, no_commit, root, git_log) ==
    IF r.pending_user THEN Some("running")
    ELSE IF ~r.seen_assistant THEN None
    ELSE IF r.last_turn_commit THEN Some("done")
    ELSE IF /\ no_commit
            /\ r.last_user_ts # None
            /\ r.last_assistant_ts # None
            /\ root
         THEN IF _git_commit_in_range(git_log, Val(r.last_user_ts),
                                      Val(r.last_assistant_ts))
              THEN Some("done")
              ELSE Some("no_commit")
    ELSE Some("done")

(***************************************************************************)
(* The live tail: watch_log.  A watch state is the record of the           *)
(* function's locals (switch_state.allow_external_switch included); wrote  *)
(* is the title the last event made it write, None when it wrote none.     *)
(* The environment of one event: mono is time.monotonic(), head_now the    *)
(* answer of _git_head (None: the query failed), hist whether the history  *)
(* index holds the log's session id.                                       *)
(***************************************************************************)
WatchInit(history_seen, commit_root, allow_external_switch) ==
    [pending_user |-> FALSE, real_user_seen |-> history_seen,
     commit_root |-> commit_root, turn_base_head |-> None,
     pending_commit_calls |-> {}, pending_tool_calls |-> {},
     turn_commit_seen |-> FALSE, last_response_activity |-> None,
     allow_external_switch |-> allow_external_switch,
     wrote |-> None]

\* Faulty variant of set_done_title: the no-commit title is never chosen.
set_done_title_AlwaysDone(w, no_commit, head_now) == "done"

\* set_done_title (lines 1124-1136): the title it writes.
set_done_title(w, no_commit, head_now) ==
    IF w.turn_commit_seen THEN "done"
    ELSE IF no_commit /\ w.commit_root /\ w.turn_base_head # None
         THEN IF head_now # None /\ head_now # w.turn_base_head
              THEN "done"
              ELSE "no_commit"
    ELSE "done"

\* refresh_real_user (lines 1138-1151): the new real_user_seen, which is
\* also the value returned.
refresh_real_user(w, text, hist) ==
    IF w.real_user_seen THEN TRUE
    ELSE IF text = None THEN hist
    ELSE IF _is_bootstrap_message(Val(text)) THEN hist
    ELSE TRUE

\* Faulty variant of WatchUserMessage: an unconfirmed bootstrap message
\* is passed over, as the scan passes it over.
WatchUserMessage_SkipsBootstrap(w, user_text, head_now, hist) ==
    IF /\ user_text # None /\ _is_bootstrap_message(Val(user_text))
       /\ ~w.real_user_seen /\ ~hist
    THEN w
    ELSE [w EXCEPT !.pending_user = TRUE,
                   !.last_response_activity = None,
                   !.pending_tool_calls = {},
                   !.turn_commit_seen = FALSE,
                   !.pending_commit_calls = {},
                   !.turn_base_head = IF w.commit_root THEN head_now ELSE @,
                   !.allow_external_switch =
                       IF _is_resume_command(user_text) THEN TRUE ELSE @,
                   !.real_user_seen = refresh_real_user(w, user_text, hist),
                   !.wrote = IF refresh_real_user(w, user_text, hist)
                             THEN Some("running") ELSE None]

\* A user message in either representation (lines 1190-1200, 1209-1219).
WatchUserMessage(w, user_text, head_now, hist) ==
    LET real == refresh_real_user(w, user_text, hist)
    IN  [w EXCEPT !.pending_user = TRUE,
                  !.last_response_activity = None,
                  !.pending_tool_calls = {},
                  !.turn_commit_seen = FALSE,
                  !.pending_commit_calls = {},
                  !.turn_base_head = IF w.commit_root THEN head_now ELSE @,
                  !.allow_external_switch =
                      IF _is_resume_command(user_text) THEN TRUE ELSE @,
                  !.real_user_seen = real,
                  !.wrote = IF real THEN Some("running") ELSE None]

\* An assistant or agent message or a turn abort (lines 1202-1205,
\* 1221-1224).
WatchCloseTurn(w, no_commit, head_now) ==
    [w EXCEPT !.pending_user = FALSE,
              !.last_response_activity = None,
              !.wrote = IF w.real_user_seen
                        THEN Some(set_done_title(w, no_commit, head_now))
                        ELSE None]

\* Any other response_item (lines 1226-1242).
WatchResponseItem(w, e, hist) ==
    LET running == /\ e.ptype \in {"reasoning", "function_call", "custom_tool_call"}
                   /\ w.pending_user
        real == IF running THEN refresh_real_user(w, None, hist)
                ELSE w.real_user_seen
    IN  [w EXCEPT !.pending_tool_calls = _note_tool_call(e, @),
                  !.real_user_seen = real,
                  !.wrote = IF running /\ real THEN Some("running") ELSE None,
                  !.pending_commit_calls = CommitCalls(e, @),
                  !.turn_commit_seen = CommitSeen(e, w.pending_commit_calls, @)]

\* The loop body for an event read from the log (lines 1183-1242).
WatchEvent(w, e, no_commit, mono, head_now, hist) ==
    LET user_text == _extract_user_text(e)
        w0 == [w EXCEPT !.wrote = None]
        w1 == IF user_text = None
              THEN [w0 EXCEPT !.last_response_activity = Some(mono)]
              ELSE w0
    IN  IF e.type = "event_msg"
        THEN IF e.ptype = "user_message"
             THEN WatchUserMessage(w1, user_text, head_now, hist)
             ELSE IF e.ptype \in {"agent_message", "assistant_message", "turn_aborted"}
             THEN WatchCloseTurn(w1, no_commit, head_now)
             ELSE w1
        ELSE IF e.type = "response_item" /\ e.ptype = "message"
        THEN IF e.role = "user"
             THEN WatchUserMessage(w1, user_text, head_now, hist)
             ELSE IF e.role = "assistant"
             THEN WatchCloseTurn(w1, no_commit, head_now)
             ELSE w1
        ELSE IF e.type = "response_item"
        THEN WatchResponseItem(w1, e, hist)
        ELSE w1

\* The loop body for the reader's synthetic _idle event (lines 1169-1182).
WatchIdle(w, no_commit, mono, head_now) ==
    LET w0 == [w EXCEPT !.wrote = None]
    IN  IF _should_idle_done(w.pending_user, w.real_user_seen,
                             w.pending_tool_calls, w.last_response_activity,
                             mono, _IDLE_DONE_SECS)
        THEN [w0 EXCEPT !.pending_user = FALSE,
                        !.last_response_activity = None,
                        !.wrote = Some(set_done_title(w, no_commit, head_now))]
        ELSE w0

(***************************************************************************)
(* Example logs: the event sequences of the repository's tests and of the  *)
(* specification's scenarios.  The history variable story follows the log  *)
(* read so far while it is a prefix of an example, and is OffStory after.  *)
(***************************************************************************)
At(e, t) == [e EXCEPT !.ts = Some(t)]

UserHello == [Ev("event_msg", "user_message") EXCEPT !.text = Some(HelloText)]
UserBoot == [Ev("event_msg", "user_message") EXCEPT !.text = Some(BootText)]
AgentMessage == Ev("event_msg", "agent_message")
Reasoning == Ev("response_item", "reasoning")
TokenCount == Ev("event_msg", "token_count")
CallPlain ==
    [Ev("response_item", "function_call") EXCEPT
        !.call_id = "call_1", !.name = "shell_command"]
CallCommit ==
    [Ev("response_item", "function_call") EXCEPT
        !.call_id = "call_1", !.name = "exec_command", !.cmd = Some(GitCommitCmd)]
CallStatus ==
    [Ev("response_item", "function_call") EXCEPT
        !.call_id = "call_1", !.name = "exec_command", !.cmd = Some(GitStatusCmd)]
OutputZero ==
    [Ev("response_item", "function_call_output") EXCEPT
        !.call_id = "call_1", !.output = Some(ExitZero)]

\* test_bootstrap_message_is_ignored
ExBootstrap == <<At(UserBoot, 0)>>
\* test_user_to_agent_message_marks_done
ExUserAgent == <<At(UserHello, 0), At(AgentMessage, 1)>>
\* the same with an agent message that carries no timestamp
ExUserAgentNoTs == <<At(UserHello, 0), AgentMessage>>
\* test_pending_tool_call_keeps_running
ExOpenCall == <<At(UserHello, 0), At(CallPlain, 1)>>
\* test_tool_only_turn_fallback_marks_done
ExToolOnly ==
    <<At(UserHello, 0), At(Reasoning, 0), At(CallPlain, 0), At(OutputZero, 1),
      At(TokenCount, 1)>>
\* test_git_commit_detected_from_tool_output
ExCommit ==
    <<At(UserHello, 0), At(CallCommit, 0), At(OutputZero, 1), At(AgentMessage, 1)>>
\* the end-to-end scenario with a non-committing call
ExNoCommit ==
    <<At(UserHello, 0), At(CallStatus, 0), At(OutputZero, 1), At(AgentMessage, 1)>>

\* a second user message while the first turn's tool call is open
ExOpenCallNewTurn == <<At(UserHello, 0), At(CallPlain, 1), At(UserHello, 1)>>

Examples ==
    {ExBootstrap, ExUserAgent, ExUserAgentNoTs, ExOpenCall, ExToolOnly,
     ExCommit, ExNoCommit, ExOpenCallNewTurn}

OffStory == <<NoEvent>>

IsPrefix(p, q) == Len(p) <= Len(q) /\ SubSeq(q, 1, Len(p)) = p

StoryNext(st, e) ==
    IF st # OffStory /\ \E x \in Examples : IsPrefix(Append(st, e), x)
    THEN Append(st, e)
    ELSE OffStory

\* watch_log never reads a line's timestamp, and the reader passes every
\* line on when it starts from an offset (iter_jsonl, start_time None): the
\* live tail is modelled on lines without timestamp.
Shape(x) == [i \in 1..Len(x) |-> [x[i] EXCEPT !.ts = None]]

TailStoryNext(st, e) ==
    IF st # OffStory /\ \E x \in Examples : IsPrefix(Append(st, e), Shape(x))
    THEN Append(st, e)
    ELSE OffStory

(***************************************************************************)
(* State.                                                                  *)
(***************************************************************************)
VARIABLES
    pc,              \* where start_watcher's loop body is: "start" (before
                     \* _initial_title_from_log), "scan" (_collect_log_state
                     \* reads the log), "scanned" (the initial title is set),
                     \* "tail" (watch_log follows the log), "crashed" (an
                     \* exception has ended the watcher thread)
    session_id,      \* _session_id_from_log: the log's session id, or None
    history_has,     \* the history index holds the log's session id
    no_commit_title, \* a no-commit title is configured (non-empty)
    scan,            \* the locals of _collect_log_state
    watch,           \* the locals of watch_log
    title,           \* the title written last ("new": main's first write)
    done_seen,       \* DoneState.seen
    mono,            \* time.monotonic()
    head,            \* the repository's HEAD
    story,           \* history variable: the lines read, see above
    args,            \* the arguments of a helper function called on its own
    result,          \* what that call returned
    wait,            \* the locals of wait_for_log
    switch,          \* the fields of the reader's SwitchState
    world            \* what the locator reads: the session tree, the
                     \* companion log, the history index, the process

vars ==
    <<pc, session_id, history_has, no_commit_title, scan, watch, title,
      done_seen, mono, head, story, args, result, wait, switch, world>>

\* The locator's variables, and their values while the locator is not
\* looked at.
locator == <<wait, switch, world>>

NoWait == [state |-> "none"]
NoSwitch == [state |-> "none"]
NoWorld == [state |-> "none"]

LocatorResting ==
    /\ wait = NoWait
    /\ switch = NoSwitch
    /\ world = NoWorld

\* No helper function is called on its own while a log is watched.
call == <<args, result, locator>>

env == <<session_id, history_has, no_commit_title>>

\* Wall-clock readings of the scan's idle fallback: before, at and after
\* the idle timeout, and at and beyond the clock-skew tolerance.
NowValues ==
    {0, _IDLE_DONE_SECS, _IDLE_DONE_SECS + MaxTs,
     _CLOCK_SKEW_SECS, _CLOCK_SKEW_SECS + MaxTs + 1}

\* The commit times version control may report.
GitLogs == SUBSET (0..MaxTs)

Init ==
    /\ pc = "start"
    /\ session_id \in {None, Some("s1")}
    /\ history_has \in BOOLEAN
    /\ session_id = None => ~history_has
    /\ no_commit_title \in BOOLEAN
    /\ scan = ScanInit(FALSE)
    /\ watch = WatchInit(FALSE, FALSE, FALSE)
    /\ title = "new"
    /\ done_seen = FALSE
    /\ mono = 0
    /\ head = 0
    /\ story = <<>>
    /\ args = <<>>
    /\ result = <<>>
    /\ LocatorResting

\* _initial_title_from_log, lines 644-648: the history gate.  A log whose
\* session id the history index does not hold is scanned only with
\* allow_unseen.
InitialTitleStart ==
    /\ pc = "start"
    /\ \E allow_unseen \in BOOLEAN :
        LET history_seen == session_id = None \/ history_has
        IN  IF session_id # None /\ ~history_seen /\ ~allow_unseen
            THEN pc' = "scanned" /\ scan' = scan
            ELSE pc' = "scan" /\ scan' = ScanInit(history_seen)
    /\ UNCHANGED <<call, env, watch, title, done_seen, mono, head, story>>

\* _collect_log_state reads the next line of the log.
ScanLine(e) ==
    /\ pc = "scan"
    /\ scan' = ScanEvent(scan, e)
    /\ story' = StoryNext(story, e)
    /\ UNCHANGED <<call, pc, env, watch, title, done_seen, mono, head>>

\* The lines that are no JSON object: text json.loads rejects, the JSON
\* null, and any other JSON value (a number, a string, a list, a boolean).
BadLines == {"text", "null", "value"}

\* _parse_json of such a line: None when json.loads raises, else the value
\* json.loads returns, whatever its type; null loads as None.
_parse_json(line) == IF line \in {"text", "null"} THEN None ELSE Some(line)

\* _collect_log_state reads a line that is no JSON object.  "if data is
\* None: continue" skips what _parse_json rejects; on any other value
\* _parse_timestamp(data) calls data.get, which raises AttributeError:
\* _initial_title_from_log catches it and returns None (lines 653-654), so
\* no initial title is set.
ScanBadLine(line) ==
    /\ pc = "scan"
    /\ pc' = IF _parse_json(line) = None THEN pc ELSE "scanned"
    /\ UNCHANGED <<call, env, scan, watch, title, done_seen, mono, head, story>>

\* The title start_watcher sets after the scan (lines 1298-1302).
InitialTitleSet(r, t, root, git_log) ==
    LET initial_title == InitialTitle(r, no_commit_title, root, git_log)
    IN  /\ title' = IF initial_title # None THEN Val(initial_title) ELSE title
        /\ done_seen' =
             IF initial_title # None /\ Val(initial_title) \in {"done", "no_commit"}
             THEN TRUE ELSE done_seen

\* time.time() is read only when the idle fallback gets to it (line 626).
ClockReadings ==
    IF /\ scan.pending_user /\ scan.real_user_seen /\ scan.response_seen
       /\ scan.pending_tool_calls = {}
       /\ _IDLE_DONE_SECS > 0 /\ scan.last_response_ts # None
    THEN NowValues ELSE {0}

\* Version control is asked only for a closed turn without a recorded
\* commit whose timestamps are known, with a no-commit title configured
\* (lines 661-667): whether there is a repository, then its log.
AsksGit(r) ==
    /\ ~r.pending_user /\ r.seen_assistant /\ ~r.last_turn_commit
    /\ no_commit_title
    /\ r.last_user_ts # None /\ r.last_assistant_ts # None

RootAnswers(r) == IF AsksGit(r) THEN BOOLEAN ELSE {FALSE}

GitLogAnswers(r, root) == IF AsksGit(r) /\ root THEN GitLogs ELSE {{}}

\* The log ends: the idle fallback runs with time.time() = t, the scan
\* returns and the initial title is set.  root and git_log are what
\* version control answers.
ScanReturn(t, root, git_log) ==
    /\ pc = "scan"
    /\ scan' = ScanIdleFallback(scan, t)
    /\ InitialTitleSet(scan', t, root, git_log)
    /\ pc' = "scanned"
    /\ UNCHANGED <<call, env, watch, mono, head, story>>

\* watch_log starts (lines 1102-1122).
WatchStart(root) ==
    /\ pc = "scanned"
    /\ watch' = WatchInit(session_id # None /\ history_has,
                          no_commit_title /\ root, FALSE)
    /\ scan' = ScanInit(FALSE)
    /\ story' = <<>>
    /\ pc' = "tail"
    /\ UNCHANGED <<call, env, title, done_seen, mono, head>>

\* What one loop iteration of watch_log leaves: the locals, the title and
\* DoneState.seen.
WatchApply(w) ==
    /\ watch' = [w EXCEPT !.wrote = None]
    /\ title' = IF w.wrote # None THEN Val(w.wrote) ELSE title
    /\ done_seen' =
         IF w.wrote # None /\ Val(w.wrote) \in {"done", "no_commit"}
         THEN TRUE ELSE done_seen

\* The lines that make watch_log open or close a turn.
OpensTurn(e) ==
    \/ e.type = "event_msg" /\ e.ptype = "user_message"
    \/ e.type = "response_item" /\ e.ptype = "message" /\ e.role = "user"

ClosesTurn(e) ==
    \/ /\ e.type = "event_msg"
       /\ e.ptype \in {"agent_message", "assistant_message", "turn_aborted"}
    \/ e.type = "response_item" /\ e.ptype = "message" /\ e.role = "assistant"

\* _git_head is called only with a repository root, when a turn opens or
\* closes; it may fail.
GitAnswers(e) ==
    IF watch.commit_root /\ (OpensTurn(e) \/ ClosesTurn(e)) THEN BOOLEAN ELSE {TRUE}

IdleGitAnswers == IF watch.commit_root /\ watch.pending_user THEN BOOLEAN ELSE {TRUE}

\* The reader yields the next line of the log.
TailEvent(e, git_ok) ==
    /\ pc = "tail"
    /\ WatchApply(WatchEvent(watch, e, no_commit_title, mono,
                             IF git_ok THEN Some(head) ELSE None,
                             session_id # None /\ history_has))
    /\ story' = TailStoryNext(story, e)
    /\ UNCHANGED <<call, pc, env, scan, mono, head>>

\* The reader meets a line that is no JSON object (lines 514-520).  What
\* _parse_json rejects is not yielded.  Any other value is yielded, since
\* _should_emit admits everything without a start time, and "etype =
\* event.get("type")" raises AttributeError in watch_log (line 1168):
\* nothing catches it and the watcher thread ends.
TailBadLine(line) ==
    /\ pc = "tail"
    /\ pc' = IF _parse_json(line) = None THEN pc ELSE "crashed"
    /\ UNCHANGED <<call, env, scan, watch, title, done_seen, mono, head, story>>

\* The reader yields its synthetic _idle event.
TailIdle(git_ok) ==
    /\ pc = "tail"
    /\ WatchApply(WatchIdle(watch, no_commit_title, mono,
                            IF git_ok THEN Some(head) ELSE None))
    /\ UNCHANGED <<call, pc, env, scan, mono, head, story>>

\* Time passes.
Tick ==
    /\ pc = "tail"
    /\ mono < MaxMono
    /\ mono' = mono + 1
    /\ UNCHANGED <<call, pc, env, scan, watch, title, done_seen, head, story>>

\* A commit lands in the repository watch_log found.
GitCommit ==
    /\ pc = "tail"
    /\ watch.commit_root
    /\ head < MaxHead
    /\ head' = head + 1
    /\ UNCHANGED <<call, pc, env, scan, watch, title, done_seen, mono, story>>

\* The agent records the session in the history index.
HistoryAppend ==
    /\ pc \in {"scanned", "tail"}
    /\ session_id # None
    /\ ~history_has
    /\ history_has' = TRUE
    /\ UNCHANGED <<call, pc, session_id, no_commit_title, scan, watch, title,
                   done_seen, mono, head, story>>

Next ==
    \/ InitialTitleStart
    \/ \E e \in Events : ScanLine(e)
    \/ \E line \in BadLines : ScanBadLine(line)
    \/ \E t \in ClockReadings :
          \E root \in RootAnswers(ScanIdleFallback(scan, t)) :
              \E git_log \in GitLogAnswers(ScanIdleFallback(scan, t), root) :
                  ScanReturn(t, root, git_log)
    \/ \E root \in BOOLEAN : WatchStart(root)
    \/ \E e \in EventShapes : \E git_ok \in GitAnswers(e) : TailEvent(e, git_ok)
    \/ \E line \in BadLines : TailBadLine(line)
    \/ \E git_ok \in IdleGitAnswers : TailIdle(git_ok)
    \/ Tick
    \/ GitCommit
    \/ HistoryAppend

Spec == Init /\ [][Next]_vars

(***************************************************************************)
(* Properties of the historical scan.                                      *)
(*                                                                         *)
(* The scan's result for a log that continues with given lines is computed *)
(* from the state the scan has reached (any log read so far) with the      *)
(* operators the actions apply.                                            *)
(***************************************************************************)
\* Lines that count as a user message and do not start with a bootstrap
\* prefix.
RealUserMessages ==
    {e \in Events : /\ _extract_user_text(e) # None
                    /\ ~_is_bootstrap_message(Val(_extract_user_text(e)))}

BootstrapMessages ==
    {e \in Events : /\ _extract_user_text(e) # None
                    /\ _is_bootstrap_message(Val(_extract_user_text(e)))}

AgentMessages ==
    {e \in Events : e.type = "event_msg" /\ e.ptype = "agent_message"}

\* function_call lines with the call id call_1 that open a tool call.
OpenCalls ==
    {e \in Events : /\ e.ptype = "function_call" /\ e.call_id = "call_1"
                    /\ e.status # "completed"}

\* function_call_output lines with the call id call_1.
Outputs ==
    {e \in Events : e.ptype = "function_call_output" /\ e.call_id = "call_1"}

\* The lines of a set as the live tail sees them: it reads no timestamp.
Untimed(lines) == {e \in lines : e.ts = None}

\* The result of the scan when the log ends with the lines u, a and the
\* wall clock reads t.
AfterUserAgent(u, a, t) ==
    ScanIdleFallback(ScanEvent(ScanEvent(scan, u), a), t)

\* C1 (as stated): whatever the scan has read, when the log ends with a
\* non-bootstrap user message immediately followed by an agent_message,
\* the result has pending_user false, seen_assistant true and a last
\* assistant timestamp that is not null.
C1_AsStated ==
    pc = "scan" =>
        \A u \in RealUserMessages, a \in AgentMessages, t \in NowValues :
            LET r == AfterUserAgent(u, a, t)
            IN  /\ ~r.pending_user
                /\ r.seen_assistant
                /\ r.last_assistant_ts # None

\* C1 (amended): whatever the scan has read, when the log ends with a
\* non-bootstrap user message immediately followed by an agent_message,
\* the result has pending_user false and seen_assistant true; its last
\* assistant timestamp is the agent_message's timestamp when that one
\* parses, and is otherwise what the earlier closing lines left (null
\* when there was none with a timestamp).
C1_UserAgentDone ==
    pc = "scan" =>
        \A u \in RealUserMessages, a \in AgentMessages, t \in NowValues :
            LET r == AfterUserAgent(u, a, t)
            IN  /\ ~r.pending_user
                /\ r.seen_assistant
                /\ a.ts # None => r.last_assistant_ts = a.ts
                /\ a.ts = None => r.last_assistant_ts = scan.last_assistant_ts

\* C1 witness: the scan of the tests' log (user_message at 0, agent_message
\* at 1) has returned done with the agent message's timestamp.
C1_Witness ==
    /\ pc = "scanned"
    /\ story = ExUserAgent
    /\ ~scan.pending_user
    /\ scan.seen_assistant
    /\ scan.last_assistant_ts = Some(1)

\* C2: while no real user activity is confirmed (real_user_seen false), a
\* user message starting with a bootstrap prefix leaves every local of the
\* scan as it was; no turn is open then, so the scan reports pending_user
\* false, and seen_assistant false unless an earlier line closed a turn.
C2_BootstrapIgnored ==
    (pc = "scan" /\ ~scan.real_user_seen) =>
        \A b \in BootstrapMessages, t \in NowValues :
            LET r == ScanIdleFallback(ScanEvent(scan, b), t)
            IN  /\ ScanEvent(scan, b) = scan
                /\ ~r.pending_user
                /\ r.seen_assistant = scan.seen_assistant
                /\ scan = ScanInit(FALSE) => ~r.seen_assistant

\* C2 witness: the scan of the tests' log (one bootstrap message, history
\* not holding the session) has returned with both flags false.
C2_Witness ==
    /\ pc = "scanned"
    /\ story = ExBootstrap
    /\ ~scan.real_user_seen
    /\ ~scan.pending_user
    /\ ~scan.seen_assistant

\* C3: while a tool call is open (its id is in pending_tool_calls: a
\* function_call with a call id, not completed, with no matching output
\* yet), idle inference does not close the turn, whatever the clock reads.
\* Scan: a function_call with a call id opens a tool call, and with a tool
\* call open in an open turn the idle fallback changes nothing, so the scan
\* reports pending_user true, and seen_assistant false unless an earlier
\* turn was closed.  Live tail: with a tool call open, an _idle event at
\* any time writes no title and changes no local.
C3_OpenToolCallBlocksIdle ==
    /\ pc = "scan" =>
        /\ \A c \in OpenCalls : ScanEvent(scan, c).pending_tool_calls # {}
        /\ (scan.pending_user /\ scan.pending_tool_calls # {}) =>
              \A t \in NowValues :
                  LET r == ScanIdleFallback(scan, t)
                  IN  /\ r = scan
                      /\ r.pending_user
                      /\ ~scan.seen_assistant => ~r.seen_assistant
    /\ pc = "tail" =>
        /\ \A c \in Untimed(OpenCalls) :
              WatchEvent(watch, c, no_commit_title, mono, Some(head),
                         session_id # None /\ history_has).pending_tool_calls # {}
        /\ watch.pending_tool_calls # {} =>
              \A m \in 0..(MaxMono + _IDLE_DONE_SECS), git_ok \in BOOLEAN :
                  WatchIdle(watch, no_commit_title, m,
                            IF git_ok THEN Some(head) ELSE None) = watch

\* C3 witness: the live tail has read the tests' log (user message, then a
\* function_call with no output), the idle timeout has passed since the
\* call, and the title is still the running title.
C3_Witness ==
    /\ pc = "tail"
    /\ story = Shape(ExOpenCall)
    /\ watch.pending_user
    /\ watch.pending_tool_calls = {"call_1"}
    /\ watch.last_response_activity = Some(0)
    /\ mono = _IDLE_DONE_SECS
    /\ title = "running"
    /\ ~done_seen

\* The result of the scan when the log ends with the lines c, o (a tool
\* call and its output) and the wall clock reads t.
AfterCallOutput(c, o, t) ==
    ScanIdleFallback(ScanEvent(ScanEvent(scan, c), o), t)

\* The lines of C4 and C5: a function_call and its output, the output
\* with a timestamp.
ToolCalls == {e \in OpenCalls : e.ts # Some(MaxTs)}

TimedOutputs == {e \in Outputs : e.ts # None}

\* C4: in an open turn (user message seen, no assistant message since),
\* when the log ends with a function_call and its matching output and no
\* other tool call is open, the scan reports the turn done (pending_user
\* false, seen_assistant true, last assistant timestamp not null) for any
\* wall clock t with t - ts >= _IDLE_DONE_SECS and |ts - t| <=
\* _CLOCK_SKEW_SECS, ts the timestamp of the output.
C4_ToolOnlyTurnDone ==
    (pc = "scan" /\ scan.pending_user) =>
        \A c \in ToolCalls, o \in TimedOutputs, t \in NowValues :
            LET r == AfterCallOutput(c, o, t)
                only == ScanEvent(ScanEvent(scan, c), o).pending_tool_calls = {}
            IN  (/\ only
                 /\ t - Val(o.ts) >= _IDLE_DONE_SECS
                 /\ abs(Val(o.ts) - t) <= _CLOCK_SKEW_SECS)
                => /\ ~r.pending_user
                   /\ r.seen_assistant
                   /\ r.last_assistant_ts # None

\* C4 witness: the scan of the tests' tool-only log has returned done, its
\* last assistant timestamp the timestamp of the last response line.
C4_Witness ==
    /\ pc = "scanned"
    /\ story = ExToolOnly
    /\ ~scan.pending_user
    /\ scan.seen_assistant
    /\ scan.last_assistant_ts = Some(1)
    /\ scan.last_response_ts = Some(1)

\* C5: in an open turn, when the log ends with a function_call and its
\* matching output and the output's timestamp differs from the wall clock
\* by more than _CLOCK_SKEW_SECS, the idle fallback changes nothing: the
\* scan reports pending_user true, and seen_assistant false unless an
\* earlier turn was closed.
C5_SkewBlocksFallback ==
    (pc = "scan" /\ scan.pending_user) =>
        \A c \in ToolCalls, o \in TimedOutputs, t \in NowValues :
            LET before == ScanEvent(ScanEvent(scan, c), o)
                r == AfterCallOutput(c, o, t)
            IN  abs(Val(o.ts) - t) > _CLOCK_SKEW_SECS
                => /\ r = before
                   /\ r.pending_user
                   /\ ~scan.seen_assistant => ~r.seen_assistant

\* C5 witness: the scan of the tests' tool-only log has returned with the
\* turn still open although its last response line has a timestamp.
C5_Witness ==
    /\ pc = "scanned"
    /\ story = ExToolOnly
    /\ scan.pending_user
    /\ ~scan.seen_assistant
    /\ scan.response_seen
    /\ scan.pending_tool_calls = {}
    /\ scan.last_response_ts = Some(1)

(***************************************************************************)
(* Properties of the commit verdict.                                       *)
(***************************************************************************)
\* function_call lines with the call id call_1 whose command is a git
\* commit.
CommitCallLines ==
    {e \in Events : /\ e.ptype = "function_call" /\ e.call_id = "call_1"
                    /\ _extract_command(e) # None
                    /\ _command_has_git_commit(Val(_extract_command(e)))}

\* function_call_output lines with the call id call_1 that parse to exit
\* code 0.
ZeroOutputs ==
    {e \in Outputs : e.output # None /\ _parse_exit_code(Val(e.output)) = Some(0)}

ClosingLines == {e \in Events : ClosesTurn(e)}

\* Lines that are not a user message in either representation.
NotUserLines == {e \in Events : ~OpensTurn(e)}

\* What _git_head may answer in the current state.
HeadAnswers == {Some(head), None}

Hist == session_id # None /\ history_has

\* C7: a function_call with a git commit command followed by the output
\* with its call id and exit code 0 sets turn_commit_seen; no line but a
\* user message clears it; and a turn closed by an assistant or agent
\* message with turn_commit_seen set has the commit verdict true and the
\* done title.  Scan: last_turn_commit is true and _initial_title_from_log
\* returns the done title whatever version control answers.  Live tail:
\* the closing line writes the done title (it writes none while no real
\* user activity is confirmed), whatever _git_head answers; no title
\* written is the no-commit title.
C7_CommitVerdictDone ==
    /\ pc = "scan" =>
        /\ \A c \in CommitCallLines, o \in ZeroOutputs :
              ScanEvent(ScanEvent(scan, c), o).turn_commit_seen
        /\ scan.turn_commit_seen =>
              /\ \A e \in NotUserLines : ScanEvent(scan, e).turn_commit_seen
              /\ \A a \in ClosingLines, t \in NowValues :
                    LET r == ScanIdleFallback(ScanEvent(scan, a), t)
                    IN  /\ r.last_turn_commit
                        /\ \A no_commit \in BOOLEAN, root \in BOOLEAN,
                              git_log \in GitLogs :
                                InitialTitle(r, no_commit, root, git_log) = Some("done")
    /\ pc = "tail" =>
        /\ \A c \in Untimed(CommitCallLines), o \in Untimed(ZeroOutputs) :
              LET w1 == WatchEvent(watch, c, no_commit_title, mono, Some(head), Hist)
              IN  WatchEvent(w1, o, no_commit_title, mono, Some(head), Hist).turn_commit_seen
        /\ watch.turn_commit_seen =>
              /\ \A e \in Untimed(NotUserLines), h \in HeadAnswers :
                    WatchEvent(watch, e, no_commit_title, mono, h, Hist).turn_commit_seen
              /\ \A a \in Untimed(ClosingLines), h \in HeadAnswers :
                    LET w == WatchEvent(watch, a, no_commit_title, mono, h, Hist)
                    IN  /\ ~w.pending_user
                        /\ w.wrote = IF watch.real_user_seen THEN Some("done") ELSE None

\* C7 witness: the live tail, with a no-commit title configured and inside
\* a repository whose head did not move, has read the tests' log (user
\* message, git commit call, its output with exit code 0, agent message)
\* and the title is the done title.
C7_Witness ==
    /\ pc = "tail"
    /\ story = Shape(ExCommit)
    /\ no_commit_title
    /\ watch.commit_root
    /\ watch.turn_base_head = Some(0)
    /\ head = 0
    /\ watch.turn_commit_seen
    /\ ~watch.pending_user
    /\ title = "done"
    /\ done_seen

\* The lines of the scenario of C8.
HelloMessages ==
    {e \in RealUserMessages : e.type = "event_msg" /\ Val(e.text) = HelloText}

PlainCalls ==
    {e \in OpenCalls : ~(/\ _extract_command(e) # None
                         /\ _command_has_git_commit(Val(_extract_command(e))))}

\* The scan's result for the log u, c, o, a read from its first line.
ScanOf(history_seen, u, c, o, a, t) ==
    ScanIdleFallback(
        ScanEvent(ScanEvent(ScanEvent(ScanEvent(ScanInit(history_seen), u), c), o), a),
        t)

\* The live tail's state after the lines u, c, o, a with the head
\* unchanged and _git_head answering.
WatchOf(u, c, o, a) ==
    LET w1 == WatchEvent(watch, u, no_commit_title, mono, Some(head), Hist)
        w2 == WatchEvent(w1, c, no_commit_title, mono, Some(head), Hist)
        w3 == WatchEvent(w2, o, no_commit_title, mono, Some(head), Hist)
    IN  WatchEvent(w3, a, no_commit_title, mono, Some(head), Hist)

\* C8: for the log user_message, function_call without a git commit, its
\* output, agent_message, with no commit during the turn, the title is the
\* no-commit title when one is configured and the done title when none
\* is.  Scan: the log is read from its first line, the user message and
\* the agent message carry timestamps, a repository is found and its log
\* has no commit between the two timestamps.  Live tail: the lines arrive
\* in any state of the tail, inside a repository when a no-commit title is
\* configured, _git_head answers and the head does not move.
C8_NoCommitTitle ==
    /\ (pc = "scan" /\ scan \in {ScanInit(TRUE), ScanInit(FALSE)}) =>
        \A u \in HelloMessages, c \in PlainCalls, o \in Outputs, a \in AgentMessages,
           t \in NowValues, git_log \in GitLogs :
            (/\ u.ts # None /\ a.ts # None
             /\ ~_git_commit_in_range(git_log, Val(u.ts), Val(a.ts)))
            => LET r == ScanOf(scan.real_user_seen, u, c, o, a, t)
               IN  /\ InitialTitle(r, TRUE, TRUE, git_log) = Some("no_commit")
                   /\ \A root \in BOOLEAN :
                         InitialTitle(r, FALSE, root, git_log) = Some("done")
    /\ (pc = "tail" /\ (no_commit_title => watch.commit_root)) =>
        \A u \in Untimed(HelloMessages), c \in Untimed(PlainCalls),
           o \in Untimed(Outputs), a \in Untimed(AgentMessages) :
            WatchOf(u, c, o, a).wrote =
                Some(IF no_commit_title THEN "no_commit" ELSE "done")

\* C8 witness: the live tail, with a no-commit title configured and inside
\* a repository whose head did not move, has read the log (user message,
\* git status call, its output, agent message) and the title is the
\* no-commit title.
C8_Witness ==
    /\ pc = "tail"
    /\ story = Shape(ExNoCommit)
    /\ no_commit_title
    /\ watch.commit_root
    /\ watch.turn_base_head = Some(0)
    /\ head = 0
    /\ ~watch.turn_commit_seen
    /\ title = "no_commit"
    /\ done_seen

(***************************************************************************)
(* Log resolution helpers.  A file system fs maps a path to the file's     *)
(* leading lines, or to NoFile when the path does not exist.  A leading    *)
(* line is a session_meta or turn_context record with its payload's cwd;   *)
(* stamp is the session_meta's timestamp field (payload.timestamp or the   *)
(* line's own): str tells whether it is a string, value what               *)
(* _parse_iso_timestamp makes of it.                                       *)
(***************************************************************************)
NoStamp == [str |-> FALSE, value |-> None]

NoFile == <<[type |-> "no file", cwd |-> NoneStr, stamp |-> NoStamp]>>
Garbled == [str |-> TRUE, value |-> None]
Stamp(t) == [str |-> TRUE, value |-> Some(t)]

Meta(cwd, stamp) == [type |-> "session_meta", cwd |-> cwd, stamp |-> stamp]
Context(cwd) == [type |-> "turn_context", cwd |-> cwd, stamp |-> NoStamp]

\* The helpers read at most this many lines of a log (cli.py:742, 764, 784).
HeadLineLimit == 200

\* _resume_log_from_tui reads this many trailing lines (cli.py:848).
TuiTailLimit == 1000

Min(a, b) == IF a < b THEN a ELSE b

\* The lines for _ in range(200) reads.
HeadLines(file) == SubSeq(file, 1, Min(Len(file), HeadLineLimit))

RECURSIVE MatchesCwdLoop(_, _)
\* The loop of _log_matches_cwd over the lines left to read.
MatchesCwdLoop(lines, target) ==
    IF lines = <<>> THEN FALSE
    ELSE IF Head(lines).type = "session_meta" THEN Head(lines).cwd = target
    ELSE IF Head(lines).type = "turn_context" /\ Head(lines).cwd = target THEN TRUE
    ELSE MatchesCwdLoop(Tail(lines), target)

_log_matches_cwd(path, cwd, fs) ==
    IF fs[path] = NoFile THEN FALSE
    ELSE MatchesCwdLoop(HeadLines(fs[path]), cwd)

RECURSIVE MetaTimestampLoop(_)
\* The loop of _session_meta_timestamp over the lines left to read.
MetaTimestampLoop(lines) ==
    IF lines = <<>> THEN None
    ELSE IF Head(lines).type = "session_meta" /\ Head(lines).stamp.str
         THEN Head(lines).stamp.value
    ELSE MetaTimestampLoop(Tail(lines))

_session_meta_timestamp(path, fs) ==
    IF fs[path] = NoFile THEN None
    ELSE MetaTimestampLoop(HeadLines(fs[path]))

\* tuple comparison key < best_key.
KeyLess(k, best) ==
    \/ k[1] < best[1]
    \/ k[1] = best[1] /\ k[2] < best[2]
    \/ k[1] = best[1] /\ k[2] = best[2] /\ k[3] < best[3]

\* Faulty variant of CandidateKey: the session_meta timestamp is used
\* whether or not it is trustworthy.
CandidateKey_TrustingMeta(candidate, start_time, cwd, fs) ==
    LET meta_ts == _session_meta_timestamp(candidate.path, fs)
        candidate_ts == IF meta_ts # None THEN Val(meta_ts) ELSE candidate.mtime
    IN  <<IF _log_matches_cwd(candidate.path, cwd, fs) THEN 0 ELSE 1,
          abs(candidate_ts - start_time), 0 - candidate.mtime>>

\* The key _best_log_candidate computes for a candidate (lines 809-815).
CandidateKey(candidate, start_time, cwd, fs) ==
    LET found == _session_meta_timestamp(candidate.path, fs)
        meta_ts == IF found # None /\ ~_timestamp_trustworthy(found, start_time)
                   THEN None ELSE found
        candidate_ts == IF meta_ts # None THEN Val(meta_ts) ELSE candidate.mtime
        distance == abs(candidate_ts - start_time)
        cwd_match == _log_matches_cwd(candidate.path, cwd, fs)
    IN  <<IF cwd_match THEN 0 ELSE 1, distance, 0 - candidate.mtime>>

RECURSIVE BestLoop(_, _, _, _, _, _)
\* The loop of _best_log_candidate over the candidates left, with best_key
\* and best_path so far.
BestLoop(candidates, start_time, cwd, fs, best_key, best_path) ==
    IF candidates = <<>> THEN best_path
    ELSE LET key == CandidateKey(Head(candidates), start_time, cwd, fs)
         IN  IF best_key = None \/ KeyLess(key, Val(best_key))
             THEN BestLoop(Tail(candidates), start_time, cwd, fs,
                           Some(key), Some(Head(candidates).path))
             ELSE BestLoop(Tail(candidates), start_time, cwd, fs,
                           best_key, best_path)

_best_log_candidate(candidates, start_time, cwd, fs) ==
    BestLoop(candidates, start_time, cwd, fs, None, None)

(***************************************************************************)
(* The companion log.  Its lines are kept as runs: a run is n equal lines, *)
(* path the file a resume notice names, NoneStr for a line that is no      *)
(* resume notice.  Equal lines make the same iteration of                  *)
(* _resume_log_from_tui's loop, so the loop is run once per run.           *)
(***************************************************************************)
Notice(path) == [path |-> path, n |-> 1]
Filler(n) == [path |-> NoneStr, n |-> n]

RECURSIVE _tail_lines(_, _)
\* The last limit lines (deque(maxlen=limit)).
_tail_lines(lines, limit) ==
    IF lines = <<>> \/ limit <= 0 THEN <<>>
    ELSE LET last == lines[Len(lines)]
             front == SubSeq(lines, 1, Len(lines) - 1)
         IN  IF last.n >= limit THEN <<[last EXCEPT !.n = limit]>>
             ELSE Append(_tail_lines(front, limit - last.n), last)

RECURSIVE ResumeLoop(_, _, _, _)
\* The loop over reversed(lines), with the fallback so far.
ResumeLoop(lines, cwd, fs, fallback) ==
    IF lines = <<>> THEN fallback
    ELSE LET line == lines[Len(lines)]
             rest == SubSeq(lines, 1, Len(lines) - 1)
         IN  IF line.path = NoneStr THEN ResumeLoop(rest, cwd, fs, fallback)
             ELSE IF fs[line.path] = NoFile THEN ResumeLoop(rest, cwd, fs, fallback)
             ELSE IF _log_matches_cwd(line.path, cwd, fs) THEN Some(line.path)
             ELSE ResumeLoop(rest, cwd, fs,
                             IF fallback = None THEN Some(line.path) ELSE fallback)

RECURSIVE Reverse(_)
Reverse(q) == IF q = <<>> THEN <<>> ELSE Append(Reverse(Tail(q)), Head(q))

\* Faulty variant of _resume_log_from_tui: there is no fallback, a notice
\* naming a log of another cwd is never returned.
_resume_log_from_tui_NoFallback(tui_log, cwd, fs) ==
    LET found == ResumeLoop(_tail_lines(tui_log, TuiTailLimit), cwd, fs, None)
    IN  IF found # None /\ _log_matches_cwd(Val(found), cwd, fs)
        THEN found ELSE None

\* Faulty variant of _resume_log_from_tui: the lines are not reversed, the
\* oldest notice is looked at first.
_resume_log_from_tui_OldestFirst(tui_log, cwd, fs) ==
    ResumeLoop(Reverse(_tail_lines(tui_log, TuiTailLimit)), cwd, fs, None)

_resume_log_from_tui(tui_log, cwd, fs) ==
    ResumeLoop(_tail_lines(tui_log, TuiTailLimit), cwd, fs, None)

(***************************************************************************)
(* Helper functions called on their own: the arguments are drawn in the    *)
(* initial state, the one action calls the function.  The watcher's        *)
(* variables rest.                                                         *)
(***************************************************************************)
turns ==
    <<session_id, history_has, no_commit_title, scan, watch, title, done_seen,
      mono, head, story>>

watcher == <<turns, locator>>

TurnsResting ==
    /\ session_id = None
    /\ history_has = FALSE
    /\ no_commit_title = FALSE
    /\ scan = ScanInit(FALSE)
    /\ watch = WatchInit(FALSE, FALSE, FALSE)
    /\ title = "new"
    /\ done_seen = FALSE
    /\ mono = 0
    /\ head = 0
    /\ story = <<>>

Resting ==
    /\ LocatorResting
    /\ TurnsResting

\* --- _should_idle_done ---------------------------------------------------
IdleTimeouts == {-1, 0, 1, _IDLE_DONE_SECS}

IdleArgs ==
    [pending_user : BOOLEAN, real_user_seen : BOOLEAN,
     pending_tool_calls : SUBSET CallIds,
     last_response_activity : {None} \cup {Some(t) : t \in 0..MaxMono},
     now : 0..MaxMono, idle_timeout : IdleTimeouts]

InitIdle ==
    /\ pc = "call"
    /\ Resting
    /\ args \in IdleArgs
    /\ result = <<>>

CallShouldIdleDone ==
    /\ pc = "call"
    /\ result' = _should_idle_done(args.pending_user, args.real_user_seen,
                                   args.pending_tool_calls,
                                   args.last_response_activity, args.now,
                                   args.idle_timeout)
    /\ pc' = "return"
    /\ UNCHANGED <<watcher, args>>

NextIdle == CallShouldIdleDone

SpecIdle == InitIdle /\ [][NextIdle]_vars

\* C6: _should_idle_done returns false when the pending-tool-call set is
\* not empty, or last_response_activity is null, or the idle timeout is
\* <= 0, or no turn is open (pending_user false), or real user activity is
\* unconfirmed (real_user_seen false); it returns true when none of these
\* holds and now - last_response_activity >= idle_timeout.
C6_ShouldIdleDone ==
    pc = "return" =>
        LET blocked == \/ args.pending_tool_calls # {}
                       \/ args.last_response_activity = None
                       \/ args.idle_timeout <= 0
                       \/ ~args.pending_user
                       \/ ~args.real_user_seen
        IN  /\ blocked => result = FALSE
            /\ (/\ ~blocked
                /\ args.now - Val(args.last_response_activity) >= args.idle_timeout)
               => result = TRUE

\* C6 witness: the call returned true with the timeout just reached.
C6_Witness ==
    /\ pc = "return"
    /\ result = TRUE
    /\ args.pending_user /\ args.real_user_seen
    /\ args.pending_tool_calls = {}
    /\ args.idle_timeout = _IDLE_DONE_SECS
    /\ args.last_response_activity = Some(0)
    /\ args.now = _IDLE_DONE_SECS

\* --- _best_log_candidate -------------------------------------------------
\* At most MaxCandidates candidates.
MaxCandidates == 2

PathOf == <<"a.jsonl", "b.jsonl", "c.jsonl", "d.jsonl">>

\* A timestamp beyond the clock-skew tolerance of every start time.
FarTs == _CLOCK_SKEW_SECS + MaxTs + 1

\* Modification times, and the start times of the session.
FileTimes == 0..(MaxTs + 1)

Heads ==
    {<<>>,
     <<Meta("here", Stamp(0))>>,
     <<Meta("here", Stamp(MaxTs + 1))>>,
     <<Meta("here", Stamp(FarTs))>>,
     <<Meta("other", Stamp(0))>>,
     <<Context("here"), Meta("other", NoStamp), Meta("other", Stamp(0))>>,
     <<Meta("here", Garbled), Meta("here", Stamp(0))>>}

\* The arguments for n candidates with the modification times m and the
\* leading lines h, and the start time st.
BestArgs(n, m, h, st) ==
    [candidates |-> [i \in 1..n |-> [mtime |-> m[i], path |-> PathOf[i]]],
     fs |-> [q \in {PathOf[i] : i \in 1..n} |->
                h[CHOOSE i \in 1..n : PathOf[i] = q]],
     start_time |-> st, cwd |-> "here"]

InitBest ==
    /\ pc = "call"
    /\ Resting
    /\ \E n \in 0..MaxCandidates :
          \E m \in [1..n -> FileTimes], h \in [1..n -> Heads], st \in 0..MaxTs :
              args = BestArgs(n, m, h, st)
    /\ result = <<>>

CallBestLogCandidate ==
    /\ pc = "call"
    /\ result' = _best_log_candidate(args.candidates, args.start_time,
                                     args.cwd, args.fs)
    /\ pc' = "return"
    /\ UNCHANGED <<watcher, args>>

NextBest == CallBestLogCandidate

SpecBest == InitBest /\ [][NextBest]_vars

\* The timestamp the claim ranks a candidate by: the session_meta
\* timestamp if present and within _CLOCK_SKEW_SECS of start_time, the
\* modification time otherwise.
RankTime(c) ==
    LET meta_ts == _session_meta_timestamp(c.path, args.fs)
    IN  IF meta_ts # None /\ abs(Val(meta_ts) - args.start_time) <= _CLOCK_SKEW_SECS
        THEN Val(meta_ts)
        ELSE c.mtime

\* The key (cwd mismatch, |t - start_time|, -mtime).
RankKey(c) ==
    <<IF _log_matches_cwd(c.path, args.cwd, args.fs) THEN 0 ELSE 1,
      abs(RankTime(c) - args.start_time), 0 - c.mtime>>

\* C9: for a non-empty candidate list _best_log_candidate returns the path
\* of a candidate whose key (cwd mismatch, |t - start_time|, -mtime) no
\* other candidate's key is below; so a candidate matching the cwd is
\* returned when there is one, and among candidates of equal cwd status
\* none closer to start_time than the returned one exists.
C9_BestLogCandidate ==
    (pc = "return" /\ args.candidates # <<>>) =>
        /\ result # None
        /\ \E i \in 1..Len(args.candidates) :
              LET best == args.candidates[i]
              IN  /\ best.path = Val(result)
                  /\ \A j \in 1..Len(args.candidates) :
                        LET other == args.candidates[j]
                        IN  /\ ~KeyLess(RankKey(other), RankKey(best))
                            /\ RankKey(other)[1] = 0 => RankKey(best)[1] = 0
                            /\ RankKey(other)[1] = RankKey(best)[1]
                               => RankKey(best)[2] <= RankKey(other)[2]

\* C9 witness: two logs of the query cwd whose session_meta timestamps are
\* beyond the tolerance; the one modified closer to the start time was
\* returned, though the other was modified later.
C9_Witness ==
    /\ pc = "return"
    /\ Len(args.candidates) = 2
    /\ args.start_time = 0
    /\ args.fs["a.jsonl"] = <<Meta("here", Stamp(FarTs))>>
    /\ args.fs["b.jsonl"] = <<Meta("here", Stamp(FarTs))>>
    /\ args.candidates[1].mtime = 1
    /\ args.candidates[2].mtime = 2
    /\ result = Some("a.jsonl")

\* --- _resume_log_from_tui ------------------------------------------------
\* The companion log has at most MaxRuns runs of lines.
MaxRuns == 3

\* Two logs and a path that does not exist.
ResumeFiles ==
    {[q \in {"a.jsonl", "b.jsonl", "gone.jsonl"} |->
         IF q = "a.jsonl" THEN ha ELSE IF q = "b.jsonl" THEN hb ELSE NoFile] :
        ha, hb \in {<<Meta("here", NoStamp)>>, <<Meta("other", NoStamp)>>,
                    <<Context("here"), Meta("other", NoStamp)>>}}

Runs ==
    {Notice(q) : q \in {"a.jsonl", "b.jsonl", "gone.jsonl"}}
    \cup {Filler(1), Filler(TuiTailLimit)}

InitResume ==
    /\ pc = "call"
    /\ Resting
    /\ \E n \in 0..MaxRuns :
          \E tui_log \in [1..n -> Runs], fs \in ResumeFiles :
              args = [tui_log |-> tui_log, cwd |-> "here", fs |-> fs]
    /\ result = <<>>

CallResumeLogFromTui ==
    /\ pc = "call"
    /\ result' = _resume_log_from_tui(args.tui_log, args.cwd, args.fs)
    /\ pc' = "return"
    /\ UNCHANGED <<watcher, args>>

NextResume == CallResumeLogFromTui

SpecResume == InitResume /\ [][NextResume]_vars

\* Run i of the companion log is a resume notice naming a log whose
\* recorded cwd is the query cwd.
MatchingNotice(i) ==
    /\ args.tui_log[i].path # NoneStr
    /\ _log_matches_cwd(args.tui_log[i].path, args.cwd, args.fs)

RECURSIVE LinesFrom(_)
\* The number of lines of the companion log from run i to its end.
LinesFrom(i) ==
    IF i > Len(args.tui_log) THEN 0 ELSE args.tui_log[i].n + LinesFrom(i + 1)

\* The last matching notice among the runs of a set.
LastMatching(runs) ==
    CHOOSE i \in runs : MatchingNotice(i) /\ \A j \in runs : MatchingNotice(j) => j <= i

\* C10 (as stated): if some resume notice names a log whose recorded cwd is
\* the query cwd, _resume_log_from_tui returns the path of the most recent
\* such notice.
C10_AsStated ==
    pc = "return" =>
        LET all == 1..Len(args.tui_log)
        IN  (\E i \in all : MatchingNotice(i))
            => result = Some(args.tui_log[LastMatching(all)].path)

\* C10 (amended): if some resume notice among the last TuiTailLimit lines
\* of the companion log names a log whose recorded cwd is the query cwd,
\* _resume_log_from_tui returns the path of the most recent such notice,
\* whatever more recent notices name; a matching notice further back is
\* not read.
C10_ResumeNoticeMatchesCwd ==
    pc = "return" =>
        LET window == {i \in 1..Len(args.tui_log) : LinesFrom(i) <= TuiTailLimit}
        IN  (\E i \in window : MatchingNotice(i))
            => result = Some(args.tui_log[LastMatching(window)].path)

\* C10 witness: the older notice names a log of the query cwd, the more
\* recent one a log of another cwd; the older notice's path was returned.
C10_Witness ==
    /\ pc = "return"
    /\ args.tui_log = <<Notice("a.jsonl"), Notice("b.jsonl")>>
    /\ args.fs["a.jsonl"] = <<Meta("here", NoStamp)>>
    /\ args.fs["b.jsonl"] = <<Meta("other", NoStamp)>>
    /\ result = Some("a.jsonl")

\* Run i of the companion log is a resume notice, and one naming a file
\* that exists.
IsNotice(i) == args.tui_log[i].path # NoneStr

ExistingNotice(i) ==
    IsNotice(i) /\ args.fs[args.tui_log[i].path] # NoFile

\* The runs within the last TuiTailLimit lines of the companion log.
TuiWindow == {i \in 1..Len(args.tui_log) : LinesFrom(i) <= TuiTailLimit}

\* The last run of a set that is a notice (naming an existing file).
LastNotice(runs) ==
    CHOOSE i \in runs : IsNotice(i) /\ \A j \in runs : IsNotice(j) => j <= i

LastExisting(runs) ==
    CHOOSE i \in runs : ExistingNotice(i) /\ \A j \in runs : ExistingNotice(j) => j <= i

\* C11 (as stated): if no resume notice names a log whose recorded cwd is
\* the query cwd, _resume_log_from_tui returns the path of the most recent
\* notice; the result is not null when the companion log holds a notice.
C11_AsStated ==
    pc = "return" =>
        LET all == 1..Len(args.tui_log)
        IN  /\ ((\E i \in all : IsNotice(i)) /\ ~(\E i \in all : MatchingNotice(i)))
               => result = Some(args.tui_log[LastNotice(all)].path)
            /\ (\E i \in all : IsNotice(i)) => result # None

\* C11 (amended): only the resume notices among the last TuiTailLimit lines
\* that name an existing file count.  If none of them names a log whose
\* recorded cwd is the query cwd, _resume_log_from_tui returns the path of
\* the most recent of them; the result is null exactly when there is none.
C11_ResumeFallback ==
    pc = "return" =>
        /\ ((\E i \in TuiWindow : ExistingNotice(i))
            /\ ~(\E i \in TuiWindow : MatchingNotice(i)))
           => result = Some(args.tui_log[LastExisting(TuiWindow)].path)
        /\ result = None <=> ~(\E i \in TuiWindow : ExistingNotice(i))

\* C11 witness: the tests' case and one more notice: both notices name
\* logs recorded under another cwd, the more recent one was returned.
C11_Witness ==
    /\ pc = "return"
    /\ args.tui_log = <<Notice("a.jsonl"), Notice("b.jsonl")>>
    /\ args.fs["a.jsonl"] = <<Meta("other", NoStamp)>>
    /\ args.fs["b.jsonl"] = <<Meta("other", NoStamp)>>
    /\ result = Some("b.jsonl")

(***************************************************************************)
(* The session tree.  A log file is a record: path, mtime (st_mtime), sid  *)
(* (the session id its name ends with), where ("dir": in the session       *)
(* directory, "tree": elsewhere under the sessions root) and head (its     *)
(* leading lines).  files is the sequence of the logs under the sessions   *)
(* root in the order the directory walk yields them; the session           *)
(* directory's listing is its subsequence.  The history index is a         *)
(* sequence of runs of equal lines, sid the line's session_id (NoneStr     *)
(* when the line does not parse or carries no string), or None when the    *)
(* file does not exist.                                                    *)
(***************************************************************************)
LogFile(path, mtime, sid, where, leading) ==
    [path |-> path, mtime |-> mtime, sid |-> sid, where |-> where,
     head |-> leading]

HistoryLine(sid) == [sid |-> sid, n |-> 1]
HistoryFiller(n) == [sid |-> NoneStr, n |-> n]

\* _latest_history_session_id reads this many trailing lines (cli.py:323).
HistoryTailLimit == 200

\* The paths a resume notice may name.
NoticePaths == {"a.jsonl", "b.jsonl", "c.jsonl", "d.jsonl", "gone.jsonl"}

\* The file system the helpers read: the leading lines of the logs.
FsOf(files) ==
    [q \in NoticePaths |->
        IF \E i \in 1..Len(files) : files[i].path = q
        THEN files[CHOOSE i \in 1..Len(files) : files[i].path = q].head
        ELSE NoFile]

\* session_dir.glob("rollout-*.jsonl").
InDir(files) ==
    LET Here(f) == f.where = "dir" IN SelectSeq(files, Here)

\* The loop "if latest is None or mtime > latest[0]": the first of the
\* files with the largest mtime, None for no file.
Newest(files) ==
    IF files = <<>> THEN None
    ELSE LET i == CHOOSE i \in 1..Len(files) :
                      \A j \in 1..Len(files) :
                          /\ files[j].mtime <= files[i].mtime
                          /\ j < i => files[j].mtime < files[i].mtime
         IN  Some(files[i].path)

_latest_log(files) == Newest(InDir(files))

RECURSIVE LatestSessionLoop(_)
\* The loop over reversed(lines) of _latest_history_session_id.
LatestSessionLoop(lines) ==
    IF lines = <<>> THEN None
    ELSE IF lines[Len(lines)].sid # NoneStr THEN Some(lines[Len(lines)].sid)
    ELSE LatestSessionLoop(SubSeq(lines, 1, Len(lines) - 1))

_latest_history_session_id(history_log) ==
    LatestSessionLoop(_tail_lines(history_log, HistoryTailLimit))

\* _find_log_by_session_id over the sessions root (lines 822-843).
_find_log_by_session_id(files, sid, cwd) ==
    LET Named(f) == f.sid = sid
        Here(f) == _log_matches_cwd(f.path, cwd, FsOf(files))
        matches == SelectSeq(files, Named)
        best_cwd == Newest(SelectSeq(matches, Here))
    IN  IF Len(matches) = 1 THEN Some(matches[1].path)
        ELSE IF best_cwd # None THEN best_cwd
        ELSE Newest(matches)

\* _recent_log_any over the sessions root (lines 865-882).
_recent_log_any(files, since, cwd) ==
    LET Recent(f) == ~(f.mtime < since)
        Here(f) == _log_matches_cwd(f.path, cwd, FsOf(files))
        best_any == Newest(SelectSeq(files, Recent))
        best_cwd == Newest(SelectSeq(SelectSeq(files, Recent), Here))
    IN  IF best_cwd # None THEN best_cwd ELSE best_any

\* The result of a resolution: the path and its provenance.
Found(path, source) == <<path, Some(source)>>
NotFound == <<None, None>>

\* Faulty variant of _status_log_path: the session directory is consulted
\* before the history index.
_status_log_path_DirFirst(tui_log, history, files, cwd) ==
    LET resume_path == _resume_log_from_tui(tui_log, cwd, FsOf(files))
        latest_id == IF history = None THEN None
                      ELSE _latest_history_session_id(Val(history))
        path == IF latest_id # None /\ Val(latest_id) # ""
                THEN _find_log_by_session_id(files, Val(latest_id), cwd)
                ELSE None
        latest == _latest_log(files)
        recent == _recent_log_any(files, 0, cwd)
    IN  IF resume_path # None THEN Found(resume_path, "tui")
        ELSE IF latest # None THEN Found(latest, "session_dir")
        ELSE IF path # None THEN Found(path, "history")
        ELSE IF recent # None THEN Found(recent, "recent_any")
        ELSE NotFound

\* _status_log_path (lines 885-901).
_status_log_path(tui_log, history, files, cwd) ==
    LET resume_path == _resume_log_from_tui(tui_log, cwd, FsOf(files))
        latest_id == IF history = None THEN None
                      ELSE _latest_history_session_id(Val(history))
        path == IF latest_id # None /\ Val(latest_id) # ""
                THEN _find_log_by_session_id(files, Val(latest_id), cwd)
                ELSE None
        latest == _latest_log(files)
        recent == _recent_log_any(files, 0, cwd)
    IN  IF resume_path # None THEN Found(resume_path, "tui")
        ELSE IF path # None THEN Found(path, "history")
        ELSE IF latest # None THEN Found(latest, "session_dir")
        ELSE IF recent # None THEN Found(recent, "recent_any")
        ELSE NotFound

\* --- _status_log_path ----------------------------------------------------
\* At most MaxFiles logs under the sessions root.
MaxFiles == 2

FileHeads == {<<Meta("here", NoStamp)>>, <<Meta("other", NoStamp)>>}

\* The logs i may be, and the session trees of n logs.
FilesAt(i) ==
    {LogFile(PathOf[i], m, sid, where, h) :
        m \in 0..MaxTs, sid \in {"s1", "s2"}, where \in {"dir", "tree"},
        h \in FileHeads}

StatusTuiLogs ==
    {<<>>, <<Notice("a.jsonl")>>, <<Notice("gone.jsonl")>>,
     <<Notice("b.jsonl"), Filler(TuiTailLimit)>>}

StatusHistories ==
    {None, Some(<<>>), Some(<<HistoryLine("s1")>>), Some(<<HistoryLine("s2")>>),
     Some(<<HistoryLine("")>>), Some(<<HistoryLine("s1"), HistoryLine(NoneStr)>>),
     Some(<<HistoryLine("s1"), HistoryLine("s2")>>),
     Some(<<HistoryLine("s1"), HistoryFiller(HistoryTailLimit)>>)}

InitStatus ==
    /\ pc = "call"
    /\ Resting
    /\ \E n \in 0..MaxFiles :
          \E files \in [1..n -> UNION {FilesAt(i) : i \in 1..n}],
             tui_log \in StatusTuiLogs, history \in StatusHistories :
              /\ \A i \in 1..n : files[i] \in FilesAt(i)
              /\ args = [tui_log |-> tui_log, history |-> history,
                         files |-> files, fs |-> FsOf(files), cwd |-> "here"]
    /\ result = <<>>

CallStatusLogPath ==
    /\ pc = "call"
    /\ result' = _status_log_path(args.tui_log, args.history, args.files, args.cwd)
    /\ pc' = "return"
    /\ UNCHANGED <<watcher, args>>

NextStatus == CallStatusLogPath

SpecStatus == InitStatus /\ [][NextStatus]_vars

\* The signals of C12, stated on the arguments.  A resume notice among the
\* last TuiTailLimit lines names an existing file.
TuiSignal == \E i \in TuiWindow : ExistingNotice(i)

\* The lines of the history index among its last HistoryTailLimit, and the
\* last of them that carries a session id.
HistoryWindow ==
    IF args.history = None THEN {}
    ELSE LET h == Val(args.history)
             From[i \in 1..(Len(h) + 1)] ==
                 IF i > Len(h) THEN 0 ELSE h[i].n + From[i + 1]
         IN  {i \in 1..Len(h) : From[i] <= HistoryTailLimit}

HistorySignal ==
    \E i \in HistoryWindow :
        LET h == Val(args.history)
        IN  /\ h[i].sid \notin {NoneStr, ""}
            /\ \A j \in HistoryWindow : j > i => h[j].sid = NoneStr
            /\ \E k \in 1..Len(args.files) : args.files[k].sid = h[i].sid

DirSignal == \E k \in 1..Len(args.files) : args.files[k].where = "dir"

AnySignal == args.files # <<>>

\* The log of a given path, and whether a path is a log of a session id.
HasSid(path, sid) ==
    \E k \in 1..Len(args.files) :
        args.files[k].path = path /\ args.files[k].sid = sid

InSessionDir(path) ==
    \E k \in 1..Len(args.files) :
        args.files[k].path = path /\ args.files[k].where = "dir"

\* C12: _status_log_path tries the signals in a fixed order and stops at
\* the first hit: a resume notice (provenance "tui"), then the latest
\* session id of the history index resolved to a log ("history"), then the
\* most recently modified log of the session directory ("session_dir"),
\* then any log of the session tree ("recent_any"); the path is null
\* exactly when the provenance is null.
C12_StatusOrder ==
    pc = "return" =>
        LET path == result[1]
            source == result[2]
        IN  /\ path = None <=> source = None
            /\ TuiSignal <=> source = Some("tui")
            /\ (~TuiSignal /\ HistorySignal) <=> source = Some("history")
            /\ (~TuiSignal /\ ~HistorySignal /\ DirSignal)
               <=> source = Some("session_dir")
            /\ (~TuiSignal /\ ~HistorySignal /\ ~DirSignal /\ AnySignal)
               <=> source = Some("recent_any")
            /\ source = Some("tui") =>
                  path = _resume_log_from_tui(args.tui_log, args.cwd, args.fs)
            /\ source = Some("history") =>
                  \E sid \in {"s1", "s2"} :
                      /\ _latest_history_session_id(Val(args.history)) = Some(sid)
                      /\ HasSid(Val(path), sid)
            /\ source = Some("session_dir") =>
                  /\ InSessionDir(Val(path))
                  /\ \A k \in 1..Len(args.files) :
                        args.files[k].where = "dir" =>
                            \E j \in 1..Len(args.files) :
                                /\ args.files[j].path = Val(path)
                                /\ args.files[k].mtime <= args.files[j].mtime
            /\ source = Some("recent_any") => path # None

\* C12 witness: no resume notice, the history index names session s1 whose
\* log exists, and the session directory holds a log modified later: the
\* history's log was returned.
C12_Witness ==
    /\ pc = "return"
    /\ args.tui_log = <<>>
    /\ args.history = Some(<<HistoryLine("s1")>>)
    /\ Len(args.files) = 2
    /\ args.files[1].sid = "s1" /\ args.files[1].where = "tree"
    /\ args.files[1].mtime = 0
    /\ args.files[2].sid = "s2" /\ args.files[2].where = "dir"
    /\ args.files[2].mtime = 1
    /\ result = Found(Some("a.jsonl"), "history")

(***************************************************************************)
(* The Log Locator: wait_for_log.  The times of its polling loop are       *)
(* tenths of a second; the loop's clock readings are kept as the           *)
(* differences its tests compare: elapsed is now - started, since_pid is   *)
(* now - pid_checked and since_fallback is now - fallback_checked, each    *)
(* kept up to the first value beyond every threshold it is compared with.  *)
(* File times (mtime, start_time) are seconds.                             *)
(* The world: files (the session tree), tui_log and tui_mtime (the         *)
(* companion log and its st_mtime), pid_log (what _log_path_from_pid       *)
(* returns at this moment), stop_event, and history (the history index,    *)
(* which wait_for_log does not read).                                      *)
(***************************************************************************)
\* CODEX_TITLE_PID_LOG_TIMEOUT_SECS, at its default of 8.0 s (cli.py:64).
_PID_LOG_TIMEOUT_SECS == 80

\* time.sleep(0.2) (cli.py:1086).
WaitSleep == 2

\* now - pid_checked >= 0.4 (cli.py:1042).
PidPollGap == 4

\* time.time() - fallback_checked >= 0.5 (cli.py:1080).
FallbackPollGap == 5

\* fallback_after: float = 2.0 (cli.py:1030).
FallbackAfter == 20

\* The first elapsed time beyond every threshold elapsed is compared with.
ElapsedCap == _PID_LOG_TIMEOUT_SECS + 1

Saturate(x, cap) == IF x > cap THEN cap ELSE x

\* The locals before the loop (lines 1032-1038): pid_checked and
\* fallback_checked are 0.0, long ago.
WaitInit(files) ==
    [existing |-> {InDir(files)[i].path : i \in 1..Len(InDir(files))},
     elapsed |-> 0, since_pid |-> PidPollGap,
     since_fallback |-> FallbackPollGap, tui_log_mtime |-> 0]

\* Faulty variant of WaitCandidates: a log that was there from the
\* beginning is a candidate like any other.
WaitCandidates_KeepsExisting(files, existing, start_time, allow_external_switch) ==
    LET Kept(f) ==
            /\ f.where = "dir"
            /\ IF f.path \in existing THEN f.mtime >= start_time
               ELSE f.mtime >= start_time - 1
    IN  SelectSeq(files, Kept)

\* The candidates of the session directory (lines 1060-1072).
WaitCandidates(files, existing, start_time, allow_external_switch) ==
    LET Kept(f) ==
            /\ f.where = "dir"
            /\ ~(f.path \in existing /\ ~allow_external_switch)
            /\ IF f.path \in existing THEN f.mtime >= start_time
               ELSE f.mtime >= start_time - 1
    IN  SelectSeq(files, Kept)

\* Faulty variant of WaitIteration: the loop gives up, returning no log,
\* once every timeout has passed.
WaitIteration_GivesUp(l, a, w) ==
    IF l.elapsed >= ElapsedCap
    THEN [wait |-> l, result |-> Some(NotFound)]
    ELSE [wait |-> l, result |-> None]

\* One iteration of the loop up to its sleep (lines 1040-1085): the locals
\* it leaves, and what it returns (None: it goes on to sleep).
WaitIteration(l, a, w) ==
    LET pid_poll == /\ a.codex_pid # None
                    /\ _PID_LOG_TIMEOUT_SECS > 0
                    /\ l.elapsed <= _PID_LOG_TIMEOUT_SECS
                    /\ l.since_pid >= PidPollGap
        l1 == IF pid_poll THEN [l EXCEPT !.since_pid = 0] ELSE l
        tui_poll == a.allow_external_switch /\ w.tui_mtime > l.tui_log_mtime
        l2 == IF tui_poll THEN [l1 EXCEPT !.tui_log_mtime = w.tui_mtime] ELSE l1
        resume_path == _resume_log_from_tui(w.tui_log, a.cwd, FsOf(w.files))
        candidates == WaitCandidates(w.files, l.existing, a.start_time,
                                     a.allow_external_switch)
        fallback_due == /\ a.allow_external_switch
                        /\ a.fallback_after >= 0
                        /\ l.elapsed >= a.fallback_after
                        /\ l.since_fallback >= FallbackPollGap
        candidate == _recent_log_any(w.files, a.start_time - 1, a.cwd)
        l3 == IF fallback_due THEN [l2 EXCEPT !.since_fallback = 0] ELSE l2
    IN  IF pid_poll /\ w.pid_log # None
        THEN [wait |-> l1, result |-> Some(Found(w.pid_log, "pid"))]
        ELSE IF tui_poll /\ resume_path # None
        THEN [wait |-> l2, result |-> Some(Found(resume_path, "tui"))]
        ELSE IF candidates # <<>>
        THEN [wait |-> l2,
              result |-> Some(Found(_best_log_candidate(candidates, a.start_time,
                                                        a.cwd, FsOf(w.files)),
                                    "session_dir"))]
        ELSE IF fallback_due /\ candidate # None
        THEN [wait |-> l2, result |-> Some(Found(candidate, "recent_any"))]
        ELSE [wait |-> l3, result |-> None]

\* time.sleep(0.2), and d more for what the iteration itself took.
WaitAdvance(l, d) ==
    [l EXCEPT !.elapsed = Saturate(@ + WaitSleep + d, ElapsedCap),
              !.since_pid = Saturate(@ + WaitSleep + d, PidPollGap),
              !.since_fallback = Saturate(@ + WaitSleep + d, FallbackPollGap)]

\* --- wait_for_log --------------------------------------------------------
\* The session starts at this time (seconds): files may be older by up to
\* two seconds.
WaitStartTime == MaxTs + 1

\* The logs of the tree when wait_for_log is called, and the logs that
\* appear while it waits.
StaleLog == LogFile("a.jsonl", WaitStartTime - 2, "s1", "dir", <<Meta("here", NoStamp)>>)
FreshLog == LogFile("a.jsonl", WaitStartTime, "s1", "dir", <<Meta("here", NoStamp)>>)
OtherLog == LogFile("b.jsonl", WaitStartTime, "s2", "tree", <<Meta("other", NoStamp)>>)

WaitTrees == {<<>>, <<StaleLog>>, <<FreshLog>>, <<StaleLog, OtherLog>>}

NewLogs ==
    {LogFile("c.jsonl", m, "s3", where, <<Meta("here", NoStamp)>>) :
        m \in (WaitStartTime - 2)..WaitStartTime, where \in {"dir", "tree"}}

\* The history index while wait_for_log runs: missing, or naming the
\* session of a.jsonl last.
WaitHistories == {None, Some(<<HistoryLine("s1")>>)}

\* An iteration may take as long as the sleep, or stall past the timeout.
WaitDelays == {0, _PID_LOG_TIMEOUT_SECS}

WaitArgs ==
    [codex_pid : {None, Some(123)}, allow_external_switch : BOOLEAN,
     fallback_after : {-10, FallbackAfter}, start_time : {WaitStartTime},
     cwd : {"here"}]

InitWait ==
    /\ pc = "wait"
    /\ TurnsResting
    /\ switch = NoSwitch
    /\ args \in WaitArgs
    /\ result = <<>>
    /\ \E files \in WaitTrees, history \in WaitHistories :
          /\ world = [files |-> files, tui_log |-> <<>>, tui_mtime |-> 0,
                      pid_log |-> None, stop_event |-> FALSE,
                      history |-> history]
          /\ wait = WaitInit(files)

\* One pass of the while loop: the iteration, then the return or the sleep.
WaitIterate(d) ==
    /\ pc = "wait"
    /\ ~world.stop_event
    /\ LET it == WaitIteration(wait, args, world)
       IN  IF it.result # None
           THEN /\ pc' = "located"
                /\ result' = Val(it.result)
                /\ wait' = it.wait
           ELSE /\ pc' = pc
                /\ result' = result
                /\ wait' = WaitAdvance(it.wait, d)
    /\ UNCHANGED <<turns, args, switch, world>>

\* The while test finds stop_event set (lines 1039, 1087).
WaitCancelled ==
    /\ pc = "wait"
    /\ world.stop_event
    /\ pc' = "located"
    /\ result' = NotFound
    /\ UNCHANGED <<turns, args, wait, switch, world>>

\* The process opens one of the logs of the tree.
ProcessOpensLog(path) ==
    /\ pc = "wait"
    /\ args.codex_pid # None
    /\ world.pid_log = None
    /\ \E i \in 1..Len(world.files) : world.files[i].path = path
    /\ world' = [world EXCEPT !.pid_log = Some(path)]
    /\ UNCHANGED <<pc, turns, args, result, wait, switch>>

\* A log appears in the tree.
LogCreated(f) ==
    /\ pc = "wait"
    /\ Len(world.files) < MaxFiles
    /\ \A i \in 1..Len(world.files) : world.files[i].path # f.path
    /\ world' = [world EXCEPT !.files = Append(@, f)]
    /\ UNCHANGED <<pc, turns, args, result, wait, switch>>

\* The agent writes a resume notice to the companion log.
NoticeWritten(path) ==
    /\ pc = "wait"
    /\ world.tui_log = <<>>
    /\ world' = [world EXCEPT !.tui_log = <<Notice(path)>>, !.tui_mtime = @ + 1]
    /\ UNCHANGED <<pc, turns, args, result, wait, switch>>

\* The agent process exits: main sets stop_event.
StopSet ==
    /\ pc = "wait"
    /\ ~world.stop_event
    /\ world' = [world EXCEPT !.stop_event = TRUE]
    /\ UNCHANGED <<pc, turns, args, result, wait, switch>>

NextWait ==
    \/ \E d \in WaitDelays : WaitIterate(d)
    \/ WaitCancelled
    \/ \E path \in NoticePaths : ProcessOpensLog(path)
    \/ \E f \in NewLogs : LogCreated(f)
    \/ \E path \in {"a.jsonl", "b.jsonl", "gone.jsonl"} : NoticeWritten(path)
    \/ StopSet

SpecWait == InitWait /\ [][NextWait]_vars

\* No signal but the pid gives wait_for_log a log in the current state:
\* the iteration finds none when no pid is given.
NoOtherSignal ==
    WaitIteration(wait, [args EXCEPT !.codex_pid = None], world).result = None

\* C13 (as stated): the pid signal has unconditional priority: whenever
\* the pid given to wait_for_log holds a session log open (its inspection
\* identifies one), a log wait_for_log returns from a resume notice or
\* from the session directory is never another log than that one.
C13_AsStated ==
    (/\ pc = "located"
     /\ args.codex_pid # None
     /\ world.pid_log # None
     /\ result[2] \in {Some("tui"), Some("session_dir")})
    => result[1] = world.pid_log

\* C13: what the loop does do: an iteration that inspects the pid (within
\* _PID_LOG_TIMEOUT_SECS of the start and PidPollGap after the last
\* inspection) and finds a log returns it with provenance "pid", whatever
\* the other signals offer.
C13_InspectedPidWins ==
    (/\ pc = "wait"
     /\ args.codex_pid # None
     /\ world.pid_log # None
     /\ wait.elapsed <= _PID_LOG_TIMEOUT_SECS
     /\ wait.since_pid >= PidPollGap)
    => WaitIteration(wait, args, world).result = Some(Found(world.pid_log, "pid"))

\* C14 (as stated): after the process-log-discovery timeout has elapsed
\* with no log found, wait_for_log still polls the pid: when the process
\* has opened its log by then and no other signal produces a log, the
\* iteration returns that log with provenance "pid".
C14_AsStated ==
    (/\ pc = "wait"
     /\ ~world.stop_event
     /\ args.codex_pid # None
     /\ world.pid_log # None
     /\ wait.elapsed > _PID_LOG_TIMEOUT_SECS
     /\ wait.since_pid >= PidPollGap
     /\ NoOtherSignal)
    => WaitIteration(wait, args, world).result = Some(Found(world.pid_log, "pid"))

\* C14: what the loop does do: once more than _PID_LOG_TIMEOUT_SECS have
\* elapsed no iteration inspects the pid, and none returns provenance
\* "pid".
C14_NoPidPollAfterTimeout ==
    (pc = "wait" /\ wait.elapsed > _PID_LOG_TIMEOUT_SECS) =>
        LET it == WaitIteration(wait, args, world)
        IN  /\ it.wait.since_pid = wait.since_pid
            /\ it.result # None => Val(it.result)[2] # Some("pid")

\* No signal gives wait_for_log a log in the current state.
NoSignal == WaitIteration(wait, args, world).result = None

\* C17 (as stated): wait_for_log returns (null, null) after a bounded wait
\* when no signal produces a log, the cancellation flag not being set:
\* once every timeout of the function has elapsed, the iteration that
\* finds no log returns (null, null).
C17_AsStated ==
    (/\ pc = "wait"
     /\ ~world.stop_event
     /\ wait.elapsed >= ElapsedCap
     /\ NoSignal)
    => WaitIteration_GivesUp(wait, args, world).result
           = WaitIteration(wait, args, world).result

\* C17 (amended): wait_for_log returns (null, null) only when the
\* cancellation flag is set.  While the flag is not set, an iteration that
\* finds no log returns nothing, however long the wait has lasted: the
\* loop sleeps and polls again.
C17_WaitsUntilCancelled ==
    /\ (pc = "located" /\ result = NotFound) => world.stop_event
    /\ (pc = "wait" /\ ~world.stop_event) =>
          LET it == WaitIteration(wait, args, world)
          IN  /\ it.result # Some(NotFound)
              /\ NoSignal => \A d \in WaitDelays : ENABLED WaitIterate(d)

\* C17 witness: every timeout has elapsed, no log exists, the flag is not
\* set, and wait_for_log is still in its loop.
C17_Witness ==
    /\ pc = "wait"
    /\ ~world.stop_event
    /\ wait.elapsed >= ElapsedCap
    /\ args.codex_pid # None
    /\ args.allow_external_switch
    /\ args.fallback_after = FallbackAfter
    /\ world.files = <<>>
    /\ world.pid_log = None
    /\ NoSignal

(***************************************************************************)
(* SwitchState (cli.py:904-1021) and the reader that consults it           *)
(* (iter_jsonl, cli.py:469-524).  The clock is read in ticks of half a     *)
(* second: the time between two readings is a number of ticks, which       *)
(* saturates at the threshold it is compared with, and a sleep of a tenth  *)
(* of a second spans no tick or one.  Modification times and the start     *)
(* time are in seconds.                                                    *)
(* The history index is here a sequence of lines [sid, ts]; the byte       *)
(* offset history_offset is the number of complete lines before it.        *)
(***************************************************************************)
\* "now - self.last_check < 0.5" (cli.py:938): one tick.
SwitchCheckGap == 1
\* switch_after, the default of SwitchState.__init__ (cli.py:911): 1.0 s.
SwitchAfter == 2
\* idle_interval of watch_log, min(0.5, max(0.1, idle_timeout / 2)): 0.5 s.
IdleInterval == 1
\* time.sleep(0.1) of the reader's follow loop (cli.py:503), in ticks.
ReaderSleeps == {0, 1}

HistoryEntry(sid, ts) == [sid |-> sid, n |-> 1, ts |-> ts]

\* Faulty variant of SwitchInit: the history index is read from its start.
SwitchInit_FromStart(log_path, sid, start_time, cwd, allow_external_switch, history) ==
    [log_path |-> log_path, session_id |-> sid, start_time |-> start_time,
     cwd |-> cwd, switch_after |-> SwitchAfter, pinned_path |-> None,
     allow_external_switch |-> allow_external_switch,
     since_activity |-> 0, since_check |-> SwitchCheckGap,
     next_path |-> None, tui_log_mtime |-> 0,
     history_offset |-> 0]

\* SwitchState.__init__: last_check = 0.0 lies further back than any gap,
\* last_activity is the time of construction.  history is the history index
\* at that time (None: no file); _history_start_offset is its size.
SwitchInit(log_path, sid, start_time, cwd, allow_external_switch, history) ==
    [log_path |-> log_path, session_id |-> sid, start_time |-> start_time,
     cwd |-> cwd, switch_after |-> SwitchAfter, pinned_path |-> None,
     allow_external_switch |-> allow_external_switch,
     since_activity |-> 0, since_check |-> SwitchCheckGap,
     next_path |-> None, tui_log_mtime |-> 0,
     history_offset |-> IF history = None THEN 0 ELSE Len(Val(history))]

note_activity(sw) == [sw EXCEPT !.since_activity = 0]

\* _tui_resume_candidate: the companion log is read again only when its
\* modification time has grown.  A companion log that does not exist has
\* modification time 0.
_tui_resume_candidate(sw, w) ==
    IF w.tui_mtime = 0 THEN [switch |-> sw, candidate |-> None]
    ELSE IF w.tui_mtime <= sw.tui_log_mtime
    THEN [switch |-> sw, candidate |-> None]
    ELSE [switch |-> [sw EXCEPT !.tui_log_mtime = w.tui_mtime],
          candidate |-> _resume_log_from_tui(w.tui_log, sw.cwd, FsOf(w.files))]

RECURSIVE HistoryLoop(_, _, _, _)
\* The loop "for line in handle" of _history_candidate: the offset moves
\* past every line read, the first line that names another session with a
\* log under the sessions root ends the loop.
HistoryLoop(sw, lines, files, offset) ==
    IF offset >= Len(lines) THEN [offset |-> offset, candidate |-> None]
    ELSE LET line == lines[offset + 1]
             old == /\ line.ts # None
                    /\ _timestamp_trustworthy(line.ts, sw.start_time)
                    /\ Val(line.ts) < sw.start_time - 1
             path == _find_log_by_session_id(files, line.sid, sw.cwd)
         IN  IF old THEN HistoryLoop(sw, lines, files, offset + 1)
             ELSE IF line.sid = NoneStr
             THEN HistoryLoop(sw, lines, files, offset + 1)
             ELSE IF sw.session_id # None /\ Some(line.sid) = sw.session_id
             THEN HistoryLoop(sw, lines, files, offset + 1)
             ELSE IF path = None THEN HistoryLoop(sw, lines, files, offset + 1)
             ELSE [offset |-> offset + 1, candidate |-> path]

\* Faulty variant of _history_candidate: the index is read from its start
\* at every check.
_history_candidate_Rescans(sw, w) ==
    IF w.history = None THEN [switch |-> sw, candidate |-> None]
    ELSE IF Len(Val(w.history)) <= sw.history_offset
    THEN [switch |-> sw, candidate |-> None]
    ELSE LET loop == HistoryLoop(sw, Val(w.history), w.files, 0)
         IN  [switch |-> [sw EXCEPT !.history_offset = Len(Val(w.history))],
              candidate |-> loop.candidate]

_history_candidate(sw, w) ==
    IF w.history = None THEN [switch |-> sw, candidate |-> None]
    ELSE IF Len(Val(w.history)) <= sw.history_offset
    THEN [switch |-> sw, candidate |-> None]
    ELSE LET loop == HistoryLoop(sw, Val(w.history), w.files, sw.history_offset)
         IN  [switch |-> [sw EXCEPT !.history_offset = loop.offset],
              candidate |-> loop.candidate]

\* "self.pinned_path = candidate" and "self.next_path = candidate" when
\* the candidate is not the log being read.
PinAndSwitch(sw, candidate) ==
    [sw EXCEPT !.pinned_path = candidate,
               !.next_path = IF Val(candidate) # sw.log_path
                             THEN candidate ELSE None]

\* self.log_path.stat().st_mtime, 0.0 for a missing file.
CurrentMtime(sw, files) ==
    IF \E i \in 1..Len(files) : files[i].path = sw.log_path
    THEN files[CHOOSE i \in 1..Len(files) : files[i].path = sw.log_path].mtime
    ELSE 0

\* Faulty variant of MtimeFallback: the time since the last admitted event
\* is not looked at.
MtimeFallback_AtOnce(sw, w) ==
    LET candidate ==
            _recent_log_any(w.files, CurrentMtime(sw, w.files) + 1, sw.cwd)
    IN  IF candidate # None /\ Val(candidate) # sw.log_path
        THEN [sw EXCEPT !.next_path = candidate]
        ELSE sw

\* The fallback of maybe_switch (cli.py:964-973).  Modification times are
\* whole seconds, so "mtime < current_mtime + 0.01" is
\* "mtime < current_mtime + 1".
MtimeFallback(sw, w) ==
    IF sw.since_activity < sw.switch_after THEN sw
    ELSE LET candidate ==
                 _recent_log_any(w.files, CurrentMtime(sw, w.files) + 1, sw.cwd)
         IN  IF candidate # None /\ Val(candidate) # sw.log_path
             THEN [sw EXCEPT !.next_path = candidate]
             ELSE sw

\* The checks of maybe_switch after the throttle (cli.py:940-973).
SwitchChecks(sw, w) ==
    LET checked == [sw EXCEPT !.since_check = 0]
        tui == _tui_resume_candidate(checked, w)
        hist == _history_candidate(tui.switch, w)
    IN  IF tui.candidate # None THEN PinAndSwitch(tui.switch, tui.candidate)
        ELSE IF hist.candidate # None
        THEN PinAndSwitch(hist.switch, hist.candidate)
        ELSE IF hist.switch.pinned_path # None
        THEN IF hist.switch.log_path # Val(hist.switch.pinned_path)
             THEN [hist.switch EXCEPT !.next_path = hist.switch.pinned_path]
             ELSE hist.switch
        ELSE MtimeFallback(hist.switch, w)

\* Faulty variant of maybe_switch: the checks run whether or not external
\* switching is allowed.
maybe_switch_AnySession(sw, w) ==
    IF sw.next_path # None THEN sw
    ELSE IF sw.since_check < SwitchCheckGap THEN sw
    ELSE SwitchChecks(sw, w)

\* Faulty variant of maybe_switch: a chosen next_path does not end the
\* checks.
maybe_switch_Rechecks(sw, w) ==
    IF ~sw.allow_external_switch THEN sw
    ELSE IF sw.since_check < SwitchCheckGap THEN sw
    ELSE SwitchChecks(sw, w)

maybe_switch(sw, w) ==
    IF sw.next_path # None THEN sw
    ELSE IF ~sw.allow_external_switch THEN sw
    ELSE IF sw.since_check < SwitchCheckGap THEN sw
    ELSE SwitchChecks(sw, w)

\* The clock moves on by d ticks.
SwitchAdvance(sw, d) ==
    [sw EXCEPT !.since_activity = Saturate(@ + d, SwitchAfter),
               !.since_check = Saturate(@ + d, SwitchCheckGap)]

\* The lines the reader meets: an admitted event, an admitted user message
\* that is a resume command (watch_log sets allow_external_switch while it
\* holds the event, cli.py:1197, 1216), and a line that is not admitted.
LineKinds == {"event", "resume", "skipped"}

\* One pass of the reader over a line (cli.py:487-498, 514-524): the
\* admitted event is yielded, then the monitor is consulted.
ReadLine(sw, w, kind) ==
    LET noted == IF kind = "skipped" THEN sw ELSE note_activity(sw)
        held == IF kind = "resume"
                THEN [noted EXCEPT !.allow_external_switch = TRUE]
                ELSE noted
    IN  [switch |-> maybe_switch(held, w),
         event |-> IF kind = "skipped" THEN "none" ELSE kind]

\* One pass of the follow loop with no line to read (cli.py:501-513): the
\* sleep, the monitor, the return when next_path is set, else the
\* heartbeat.
PollStep(sw, w, since_idle, d) ==
    LET slept == SwitchAdvance(sw, d)
        idle == Saturate(since_idle + d, IdleInterval)
        after == maybe_switch(slept, w)
    IN  [switch |-> after,
         event |-> IF after.next_path # None THEN "none"
                   ELSE IF idle >= IdleInterval THEN "_idle" ELSE "none"]

\* The session the watcher follows starts at this time (seconds).
SwitchStartTime == WaitStartTime

\* The log being read, the other logs of the tree and the logs another
\* session may create.
TailedLog == LogFile("a.jsonl", SwitchStartTime, "s1", "dir", <<Meta("here", NoStamp)>>)
SwitchOtherLogs ==
    {LogFile("b.jsonl", SwitchStartTime + 1, "s2", "tree", <<Meta("here", NoStamp)>>),
     LogFile("b.jsonl", SwitchStartTime + 1, "s2", "tree", <<Meta("other", NoStamp)>>),
     LogFile("b.jsonl", SwitchStartTime, "s2", "tree", <<Meta("here", NoStamp)>>)}

\* The lines another session may append to the history index.
SwitchHistoryLines ==
    {HistoryEntry("s1", None), HistoryEntry("s2", None),
     HistoryEntry("s2", Some(SwitchStartTime - 2))}

\* The history index holds at most this many lines.
MaxHistory == 2
\* The companion log is written at most this many times.
MaxTuiWrites == 1

InitSwitch ==
    /\ pc = "follow"
    /\ TurnsResting
    /\ wait = NoWait
    /\ args \in [allow_external_switch : BOOLEAN, cwd : {"here"},
                 start_time : {SwitchStartTime}]
    /\ result = [event |-> "none", since_idle |-> 0]
    /\ \E history \in {None, Some(<<>>)} :
          /\ world = [files |-> <<TailedLog>>, tui_log |-> <<>>,
                      tui_mtime |-> 0, history |-> history, pid_log |-> None]
          /\ switch = SwitchInit(TailedLog.path, Some(TailedLog.sid),
                                 args.start_time, args.cwd,
                                 args.allow_external_switch, history)

\* After a pass the reader returns when next_path is set (cli.py:497,
\* 506, 523) and watch_log returns next_path (cli.py:1243).
ReaderAfter(sw) == IF sw.next_path # None THEN "handover" ELSE "follow"

\* The reader reads a line of the log.
ReaderLine(kind) ==
    /\ pc = "follow"
    /\ LET step == ReadLine(switch, world, kind)
       IN  /\ switch' = step.switch
           /\ result' = [event |-> step.event,
                         since_idle |-> IF step.event = "none"
                                        THEN result.since_idle ELSE 0]
           /\ pc' = ReaderAfter(step.switch)
    /\ UNCHANGED <<turns, args, wait, world>>

\* The reader finds no line, sleeps and polls.
ReaderPoll(d) ==
    /\ pc = "follow"
    /\ LET step == PollStep(switch, world, result.since_idle, d)
       IN  /\ switch' = step.switch
           /\ result' = [event |-> step.event,
                         since_idle |->
                             IF step.event = "_idle" THEN 0
                             ELSE Saturate(result.since_idle + d,
                                           IdleInterval)]
           /\ pc' = ReaderAfter(step.switch)
    /\ UNCHANGED <<turns, args, wait, world>>

\* A resume notice is written to the companion log.
SwitchNotice(path) ==
    /\ pc \in {"follow", "handover"}
    /\ world.tui_mtime < MaxTuiWrites
    /\ world' = [world EXCEPT
                    !.tui_log = Append(@, Notice(path)),
                    !.tui_mtime = @ + 1]
    /\ UNCHANGED <<pc, turns, args, result, wait, switch>>

\* A session appends a line to the history index.
SwitchHistoryAppend(line) ==
    /\ pc \in {"follow", "handover"}
    /\ Len(IF world.history = None THEN <<>> ELSE Val(world.history)) < MaxHistory
    /\ world' = [world EXCEPT
                    !.history = IF @ = None THEN Some(<<line>>)
                                ELSE Some(Append(Val(@), line))]
    /\ UNCHANGED <<pc, turns, args, result, wait, switch>>

\* Another session creates its log under the sessions root.
SwitchLogCreated(f) ==
    /\ pc \in {"follow", "handover"}
    /\ Len(world.files) < MaxFiles
    /\ \A i \in 1..Len(world.files) : world.files[i].path # f.path
    /\ world' = [world EXCEPT !.files = Append(@, f)]
    /\ UNCHANGED <<pc, turns, args, result, wait, switch>>

\* The agent process opens a log of the tree.
SwitchProcessOpens(path) ==
    /\ pc \in {"follow", "handover"}
    /\ world.pid_log = None
    /\ \E i \in 1..Len(world.files) : world.files[i].path = path
    /\ world' = [world EXCEPT !.pid_log = Some(path)]
    /\ UNCHANGED <<pc, turns, args, result, wait, switch>>

NextSwitch ==
    \/ \E kind \in LineKinds : ReaderLine(kind)
    \/ \E d \in ReaderSleeps : ReaderPoll(d)
    \/ \E path \in {"a.jsonl", "b.jsonl", "gone.jsonl"} : SwitchNotice(path)
    \/ \E line \in SwitchHistoryLines : SwitchHistoryAppend(line)
    \/ \E f \in SwitchOtherLogs : SwitchLogCreated(f)
    \/ SwitchProcessOpens("b.jsonl")

SpecSwitch == InitSwitch /\ [][NextSwitch]_vars

\* A check that the throttle and the resume switch do not hold back.
Unthrottled(sw) ==
    [sw EXCEPT !.since_check = SwitchCheckGap, !.allow_external_switch = TRUE]

\* C15 as stated: when the agent process holds open a log other than the
\* one being read and no handover is requested yet, a call of maybe_switch
\* that the throttle lets through sets next_path to the process's log,
\* whether or not external switching is allowed.
C15_AsStated ==
    (/\ pc = "follow"
     /\ world.pid_log # None
     /\ Val(world.pid_log) # switch.log_path
     /\ switch.next_path = None
     /\ switch.since_check >= SwitchCheckGap)
    => maybe_switch(switch, world).next_path = world.pid_log

\* What holds instead: with external switching not allowed maybe_switch
\* changes nothing, whatever log the process holds open.
C15_DisabledMonitorIgnoresPid ==
    (pc = "follow" /\ ~switch.allow_external_switch)
    => maybe_switch(switch, world) = switch

\* C16: a handover request never fires twice.  Once next_path is set,
\* maybe_switch leaves every field as it is, also when the throttle and
\* the resume switch would let a check through; the reader does nothing
\* more (it yields no event and does not consult the monitor again); and
\* the pass that sets next_path ends the reader without a heartbeat.
C16_NoDoubleFire ==
    /\ [](switch.next_path # None =>
            /\ pc = "handover"
            /\ maybe_switch(switch, world) = switch
            /\ maybe_switch(Unthrottled(switch), world) = Unthrottled(switch))
    /\ [][switch.next_path # None => UNCHANGED <<switch, result, pc>>]_vars
    /\ [][(switch.next_path = None /\ switch'.next_path # None) =>
            (pc' = "handover" /\ result'.event # "_idle")]_vars

\* A handover is requested and the world has changed since: a check, were
\* it run, would alter the monitor's fields.
C16_Witness ==
    /\ pc = "handover"
    /\ switch.next_path # None
    /\ SwitchChecks(switch, world).pinned_path # switch.pinned_path

(***************************************************************************)
(* Lines that are no JSON object.                                          *)
(***************************************************************************)
\* C18 as stated: a line that is no JSON object is skipped without effect;
\* in particular it never ends the watcher.
C18_AsStated == pc # "crashed"

(***************************************************************************)
(* Properties of the live state machine's user messages.                   *)
(***************************************************************************)
\* Lines of the live tail (no timestamp is read) that carry a bootstrap
\* text, in either representation.
LiveBootstrapMessages == {e \in BootstrapMessages : e.ts = None}

\* The live tail is at a point where real user activity is confirmed
\* neither by an earlier message nor by the history index.
Unconfirmed == pc = "tail" /\ ~watch.real_user_seen /\ ~Hist

ScanTurnOpeners ==
    {e \in Events : /\ _extract_user_text(e) # None
                    /\ (scan.real_user_seen
                        \/ ~_is_bootstrap_message(Val(_extract_user_text(e))))}

\* The lines that open a turn in the live tail.
LiveTurnOpeners == {e \in EventShapes : OpensTurn(e)}

\* C20: right after a user message has opened a turn, in the scan and in
\* the live tail, no tool call and no commit call is pending and
\* turn_commit_seen is false, whatever the turn before left open.  So the
\* idle inference of the new turn is not held back: when a reasoning line
\* follows and the idle timeout passes with nothing else, the scan's
\* fallback closes the turn, and so does the live idle check once real
\* user activity is confirmed.
C20_NewTurnClearsCalls ==
    /\ pc = "scan" =>
          \A u \in ScanTurnOpeners :
              LET s == ScanEvent(scan, u)
                  r == ScanIdleFallback(ScanEvent(s, At(Reasoning, 0)),
                                        _IDLE_DONE_SECS)
              IN  /\ s.pending_user
                  /\ s.pending_tool_calls = {}
                  /\ s.pending_commit_calls = {}
                  /\ ~s.turn_commit_seen
                  /\ ~r.pending_user
    /\ pc = "tail" =>
          \A u \in LiveTurnOpeners, h \in HeadAnswers :
              LET w == WatchEvent(watch, u, no_commit_title, mono, h, Hist)
                  v == WatchEvent(w, Reasoning, no_commit_title, mono, h, Hist)
                  i == WatchIdle(v, no_commit_title, mono + _IDLE_DONE_SECS, h)
              IN  /\ w.pending_user
                  /\ w.pending_tool_calls = {}
                  /\ w.pending_commit_calls = {}
                  /\ ~w.turn_commit_seen
                  /\ v.real_user_seen => (~i.pending_user /\ i.wrote # None)

\* The live tail has read a user message, a tool call that stays open and
\* a second user message: the new turn is open with no call pending.
C20_Witness ==
    /\ pc = "tail"
    /\ story = Shape(ExOpenCallNewTurn)
    /\ watch.pending_user
    /\ watch.pending_tool_calls = {}

(***************************************************************************)
(* Properties of the commit bookkeeping.                                   *)
(***************************************************************************)
\* A function_call line flagged as commit-bearing: its command is a git
\* commit and it carries a call id.
CommitBearing(e) ==
    /\ e.ptype = "function_call" /\ e.type = "response_item"
    /\ e.call_id # NoneStr
    /\ _extract_command(e) # None
    /\ _command_has_git_commit(Val(_extract_command(e)))

\* A function_call_output line whose output parses to exit code 0.
ZeroExit(e) ==
    /\ e.ptype = "function_call_output" /\ e.type = "response_item"
    /\ e.call_id # NoneStr
    /\ e.output # None
    /\ _parse_exit_code(Val(e.output)) = Some(0)

\* One line's effect on the commit bookkeeping, as C21 has it: before is
\* the record of locals before the line, after the record after it, opens
\* whether the line opens a turn.
CommitStep(before, after, e, opens) ==
    IF opens
    THEN ~after.turn_commit_seen /\ after.pending_commit_calls = {}
    ELSE /\ after.pending_commit_calls \subseteq
                before.pending_commit_calls
                    \cup (IF CommitBearing(e) THEN {e.call_id} ELSE {})
         /\ e.ptype = "function_call_output" /\ e.type = "response_item"
                => e.call_id \notin after.pending_commit_calls
         /\ after.turn_commit_seen <=>
                \/ before.turn_commit_seen
                \/ ZeroExit(e) /\ e.call_id \in before.pending_commit_calls

\* C21: turn_commit_seen is set only by an output with exit code 0 whose
\* call id is that of a commit-bearing call of the same turn.  Line by
\* line, in the scan and in the live tail: a user message that opens a
\* turn leaves no pending commit call and turn_commit_seen false; any
\* other line adds to the pending commit calls only the id of a
\* commit-bearing call, an output removes its id, and turn_commit_seen
\* after the line is true exactly when it was true before or the line is
\* an output with exit code 0 for a pending commit call.  Hence an output
\* with another exit code or none changes nothing, and after a commit call
\* and a user message the call's output with exit code 0 does not set it.
C21_CommitSeenOnlyByZeroExit ==
    /\ pc = "scan" =>
          /\ \A e \in Events :
                CommitStep(scan, ScanEvent(scan, e), e, e \in ScanTurnOpeners)
          /\ \A c \in Untimed(CommitCallLines), o \in Untimed(ZeroOutputs) :
                /\ ScanEvent(ScanEvent(scan, c), o).turn_commit_seen
                /\ \A u \in Untimed(ScanTurnOpeners) :
                      ~ScanEvent(ScanEvent(ScanEvent(scan, c), u), o).turn_commit_seen
    /\ pc = "tail" =>
          \A h \in {Some(head)} :
              LET Live(w, e) == WatchEvent(w, e, no_commit_title, mono, h, Hist)
              IN  /\ \A e \in EventShapes :
                        CommitStep(watch, Live(watch, e), e, OpensTurn(e))
                  /\ \A c \in Untimed(CommitCallLines), o \in Untimed(ZeroOutputs) :
                        /\ Live(Live(watch, c), o).turn_commit_seen
                        /\ \A u \in LiveTurnOpeners :
                              ~Live(Live(Live(watch, c), u), o).turn_commit_seen

\* The scan has read the tests' user message, git commit call and output
\* with exit code 0: the turn is open and turn_commit_seen is set.
C21_Witness ==
    /\ pc = "scan"
    /\ story = SubSeq(ExCommit, 1, 3)
    /\ scan.pending_user
    /\ scan.turn_commit_seen
    /\ scan.pending_commit_calls = {}

(***************************************************************************)
(* Version control failing when a turn closes.                             *)
(***************************************************************************)
\* C22 as stated, for the live tail: when _git_head fails at the close of
\* a turn (its answer is None), the closing line or the idle check never
\* writes the no-commit title.
C22_AsStated ==
    pc = "tail" =>
        /\ \A c \in Untimed(ClosingLines) :
              WatchEvent(watch, c, no_commit_title, mono, None, Hist).wrote
                  # Some("no_commit")
        /\ \A t \in mono..MaxMono + _IDLE_DONE_SECS :
              WatchIdle(watch, no_commit_title, t, None).wrote # Some("no_commit")

\* What holds instead: without a repository (commit_root unset), or when
\* _git_head failed as the turn opened (no base head), a close writes the
\* done title or none, whatever _git_head answers then; in the scan no
\* repository means the done title for a closed turn.
C22_NoRepositoryMeansDone ==
    /\ (pc = "tail" /\ (~watch.commit_root \/ watch.turn_base_head = None)) =>
          \A c \in Untimed(ClosingLines), h \in HeadAnswers :
              WatchEvent(watch, c, no_commit_title, mono, h, Hist).wrote
                  \in {None, Some("done")}
    /\ pc = "scan" =>
          \A t \in NowValues :
              LET r == ScanIdleFallback(scan, t)
              IN  (~r.pending_user /\ r.seen_assistant) =>
                      InitialTitle(r, no_commit_title, FALSE, {}) = Some("done")

(***************************************************************************)
(* Lines of another top-level type.                                        *)
(***************************************************************************)
\* Lines whose type is neither event_msg nor response_item.
OtherTypeLines == {e \in Events : e.type \notin {"event_msg", "response_item"}}

\* C23 as stated: a line of another type changes no local of the scan and
\* none of the live tail, last_response_activity included, and writes no
\* title.
C23_AsStated ==
    /\ pc = "scan" => \A e \in OtherTypeLines : ScanEvent(scan, e) = scan
    /\ pc = "tail" =>
          \A e \in Untimed(OtherTypeLines), h \in HeadAnswers :
              WatchEvent(watch, e, no_commit_title, mono, h, Hist) = watch

\* What holds instead: the scan ignores such a line; the live tail writes
\* no title and changes nothing but last_response_activity, which it sets
\* to the clock's reading, so that the idle check may close an open turn
\* one idle timeout after the line.
C23_LiveCountsActivity ==
    /\ pc = "scan" => \A e \in OtherTypeLines : ScanEvent(scan, e) = scan
    /\ pc = "tail" =>
          \A e \in Untimed(OtherTypeLines), h \in HeadAnswers :
              LET w == WatchEvent(watch, e, no_commit_title, mono, h, Hist)
              IN  /\ w = [watch EXCEPT !.last_response_activity = Some(mono)]
                  /\ (/\ watch.pending_user /\ watch.real_user_seen
                      /\ watch.pending_tool_calls = {})
                     => WatchIdle(w, no_commit_title, mono + _IDLE_DONE_SECS, h).wrote
                            # None

(***************************************************************************)
(* The watcher thread: start_watcher._run (cli.py:1259-1319).  The log is  *)
(* located, then for each path in turn the initial title is set and        *)
(* watch_log follows the log until it returns a path to hand over to.      *)
(* result holds the locals of _run, world the logs that exist, the         *)
(* session ids the history index holds and stop_event.  What the scan of   *)
(* a log finds and what the switch monitor chooses are left open here:     *)
(* any title, any other existing log.  Of the reader only its loops are    *)
(* kept: the pass over the lines already in the file, which tests          *)
(* stop_event only through the consumer of an admitted event, and the      *)
(* follow loop, which tests it at every pass.                              *)
(***************************************************************************)
\* The pass over the file meets at most this many lines before its end.
MaxUnread == 2

RunPaths == {"a.jsonl", "n.jsonl"}

\* _session_id_from_log: the id of the log's session_meta line, None for a
\* log without one.
SidOf(path) == IF path = "a.jsonl" THEN Some("s1") ELSE None

RunTitles == {"running", "done", "no_commit"}

\* The provenances wait_for_log names.
RunSources == {"pid", "tui", "session_dir", "recent_any"}

\* allow_initial_resume (line 1260).
AllowInitialResume(a) == a.follow_global \/ a.resume_hint

\* The provenances wait_for_log can return (lines 1039-1086): the pid only
\* with a pid, the resume notice and the recent-any fallback only with
\* allow_external_switch, which _run passes as allow_initial_resume.
WaitSources(a) ==
    {"session_dir"}
    \cup (IF a.codex_pid THEN {"pid"} ELSE {})
    \cup (IF AllowInitialResume(a) THEN {"tui", "recent_any"} ELSE {})

\* Faulty variant of AllowUnseen: every log is trusted.
AllowUnseen_Always(a, source) == TRUE

\* allow_unseen as computed before the loop (line 1275).
AllowUnseen(a, source) ==
    AllowInitialResume(a) \/ source \in {"arg", "pid", "tui", "history"}

\* history_seen of _initial_title_from_log (lines 645-646); a missing file
\* has no session id.
HistorySeen(path, w) ==
    \/ path \notin w.exists
    \/ SidOf(path) = None
    \/ Val(SidOf(path)) \in w.history

\* The titles _initial_title_from_log may return for the log (lines
\* 644-670): None when the history gate stops it or the file cannot be
\* read, else whatever the scan finds.
InitialTitles(path, w, allow_unseen) ==
    IF path \notin w.exists THEN {None}
    ELSE IF SidOf(path) # None /\ ~HistorySeen(path, w) /\ ~allow_unseen
    THEN {None}
    ELSE {None} \cup {Some(t) : t \in RunTitles}

\* The titles _initial_title_from_recent_logs may return (lines 684-708):
\* that of another log of the session directory the gate lets through.
RecentTitles(path, w, allow_unseen) ==
    UNION {InitialTitles(q, w, allow_unseen) : q \in w.exists \ {path}}
        \cup {None}

\* The variables start_watcher's thread does not use here.
RunRest ==
    <<session_id, history_has, no_commit_title, scan, watch, mono, head,
      story, wait, switch>>

InitRun ==
    /\ pc = "locate"
    /\ session_id = None
    /\ history_has = FALSE
    /\ no_commit_title = FALSE
    /\ scan = ScanInit(FALSE)
    /\ watch = WatchInit(FALSE, FALSE, FALSE)
    /\ mono = 0
    /\ head = 0
    /\ story = <<>>
    /\ wait = NoWait
    /\ switch = NoSwitch
    /\ title = "new"
    /\ done_seen = FALSE
    /\ args \in [log_path : {None, Some("a.jsonl")}, resume_hint : BOOLEAN,
                 follow_global : BOOLEAN, codex_pid : BOOLEAN]
    /\ result = [path |-> None, source |-> None, allow_unseen |-> FALSE,
                 history_seen |-> TRUE, initial_title |-> None,
                 handed_over |-> FALSE, unread |-> 0]
    /\ \E exists \in SUBSET RunPaths :
          world = [exists |-> exists, history |-> {}, stop_event |-> FALSE]

\* An explicit log path is used as given (lines 1262-1263).
RunArg ==
    /\ pc = "locate"
    /\ args.log_path # None
    /\ result' = [result EXCEPT !.path = args.log_path, !.source = Some("arg"),
                                !.allow_unseen = AllowUnseen(args, "arg")]
    /\ pc' = "enter"
    /\ UNCHANGED <<RunRest, title, done_seen, args, world>>

\* wait_for_log returns a log (lines 1265-1271, 1275).
RunWaitReturns(path, source) ==
    /\ pc = "locate"
    /\ args.log_path = None
    /\ ~world.stop_event
    /\ path \in world.exists
    /\ source \in WaitSources(args)
    /\ result' = [result EXCEPT !.path = Some(path), !.source = Some(source),
                                !.allow_unseen = AllowUnseen(args, source)]
    /\ pc' = "enter"
    /\ UNCHANGED <<RunRest, title, done_seen, args, world>>

\* wait_for_log returns (None, None): the thread ends (lines 1272-1274).
RunWaitCancelled ==
    /\ pc = "locate"
    /\ args.log_path = None
    /\ world.stop_event
    /\ pc' = "stopped"
    /\ UNCHANGED <<RunRest, title, done_seen, args, result, world>>

\* The loop test and the initial title (lines 1276-1302).
RunEnter(first, second) ==
    /\ pc = "enter"
    /\ IF world.stop_event
       THEN /\ pc' = "stopped"
            /\ UNCHANGED <<result, title, done_seen>>
       ELSE /\ first \in InitialTitles(Val(result.path), world, result.allow_unseen)
            /\ second \in IF first = None /\ args.resume_hint
                          THEN RecentTitles(Val(result.path), world,
                                            result.allow_unseen)
                          ELSE {first}
            /\ result' = [result EXCEPT
                             !.history_seen = HistorySeen(Val(result.path), world),
                             !.initial_title = first]
            /\ title' = IF second # None THEN Val(second) ELSE title
            /\ done_seen' = IF second # None /\ Val(second) \in {"done", "no_commit"}
                            THEN TRUE ELSE done_seen
            /\ pc' = "watch"
    /\ UNCHANGED <<RunRest, args, world>>

\* watch_log starts its loop over iter_jsonl, which opens the log (line
\* 477): path.open raises FileNotFoundError for a missing file, nothing
\* catches it and the thread ends.
RunWatchOpen(unread) ==
    /\ pc = "watch"
    /\ IF Val(result.path) \in world.exists
       THEN /\ pc' = "reading"
            /\ result' = [result EXCEPT !.unread = unread]
       ELSE /\ pc' = "crashed"
            /\ UNCHANGED result
    /\ UNCHANGED <<RunRest, title, done_seen, args, world>>

\* The pass over the lines already in the file (lines 487-498): a line
\* that is not admitted is passed over; an admitted one is yielded to
\* watch_log, which breaks when stop_event is set (lines 1166-1167) and
\* returns, and _run's loop ends.
RunReadLine(admitted) ==
    /\ pc = "reading"
    /\ result.unread > 0
    /\ result' = [result EXCEPT !.unread = @ - 1]
    /\ pc' = IF admitted /\ world.stop_event THEN "stopped" ELSE "reading"
    /\ UNCHANGED <<RunRest, title, done_seen, args, world>>

\* The pass reaches the end of the file; the follow loop begins (lines
\* 499-500).
RunReadEnd ==
    /\ pc = "reading"
    /\ result.unread = 0
    /\ pc' = "tailing"
    /\ UNCHANGED <<RunRest, title, done_seen, args, result, world>>

\* watch_log returns the path the switch monitor chose (lines 1243,
\* 1315-1318).
RunHandover(next) ==
    /\ pc \in {"reading", "tailing"}
    /\ next \in world.exists
    /\ Some(next) # result.path
    /\ result' = [result EXCEPT !.path = Some(next), !.allow_unseen = TRUE,
                                !.handed_over = TRUE]
    /\ pc' = "enter"
    /\ UNCHANGED <<RunRest, title, done_seen, args, world>>

\* Faulty variant of RunWatchStops: the follow loop does not test
\* stop_event.
RunWatchStops_Unobserved ==
    /\ pc = "tailing"
    /\ world.stop_event
    /\ pc' = "tailing"
    /\ UNCHANGED <<RunRest, title, done_seen, args, result, world>>

\* The follow loop finds stop_event set, watch_log returns None and the
\* loop of _run breaks (lines 500, 1319).
RunWatchStops ==
    /\ pc = "tailing"
    /\ world.stop_event
    /\ pc' = "stopped"
    /\ UNCHANGED <<RunRest, title, done_seen, args, result, world>>

\* main sets stop_event.
RunStopSet ==
    /\ pc \notin {"stopped", "crashed"}
    /\ ~world.stop_event
    /\ world' = [world EXCEPT !.stop_event = TRUE]
    /\ UNCHANGED <<RunRest, pc, title, done_seen, args, result>>

\* A log is created or removed.
RunFileCreated(path) ==
    /\ pc \notin {"stopped", "crashed"}
    /\ path \notin world.exists
    /\ world' = [world EXCEPT !.exists = @ \cup {path}]
    /\ UNCHANGED <<RunRest, pc, title, done_seen, args, result>>

RunFileRemoved(path) ==
    /\ pc \notin {"stopped", "crashed"}
    /\ path \in world.exists
    /\ world' = [world EXCEPT !.exists = @ \ {path}]
    /\ UNCHANGED <<RunRest, pc, title, done_seen, args, result>>

\* A session is recorded in the history index.
RunHistoryAppended(sid) ==
    /\ pc \notin {"stopped", "crashed"}
    /\ sid \notin world.history
    /\ world' = [world EXCEPT !.history = @ \cup {sid}]
    /\ UNCHANGED <<RunRest, pc, title, done_seen, args, result>>

NextRun ==
    \/ RunArg
    \/ \E path \in RunPaths, source \in RunSources :
          RunWaitReturns(path, source)
    \/ RunWaitCancelled
    \/ \E first, second \in {None} \cup {Some(t) : t \in RunTitles} :
          RunEnter(first, second)
    \/ \E unread \in 0..MaxUnread : RunWatchOpen(unread)
    \/ \E admitted \in BOOLEAN : RunReadLine(admitted)
    \/ RunReadEnd
    \/ \E next \in RunPaths : RunHandover(next)
    \/ RunWatchStops
    \/ RunStopSet
    \/ \E path \in RunPaths : RunFileCreated(path)
    \/ \E path \in RunPaths : RunFileRemoved(path)
    \/ RunHistoryAppended("s1")

SpecRun == InitRun /\ [][NextRun]_vars

\* The steps of the watcher thread, as opposed to those of its
\* surroundings.  The thread is scheduled: a step it can take is taken.
RunThread ==
    \/ RunArg
    \/ \E path \in RunPaths, source \in RunSources :
          RunWaitReturns(path, source)
    \/ RunWaitCancelled
    \/ \E first, second \in {None} \cup {Some(t) : t \in RunTitles} :
          RunEnter(first, second)
    \/ \E unread \in 0..MaxUnread : RunWatchOpen(unread)
    \/ \E admitted \in BOOLEAN : RunReadLine(admitted)
    \/ RunReadEnd
    \/ RunWatchStops

SpecRunFair == SpecRun /\ WF_vars(RunThread)

\* C24: a log that carries a session id the history index does not hold
\* gets an initial title from its own scan only with allow_unseen; and
\* allow_unseen holds exactly when the log was found by explicit
\* argument, pid, resume notice or history, or a resume hint or global
\* resume-following is set, or the path was handed over: not for a log
\* found by a bare scan of the session directory.
C24_AllowUnseen ==
    pc # "locate" /\ result.path # None =>
        /\ (result.initial_title # None /\ ~result.history_seen)
               => result.allow_unseen
        /\ result.allow_unseen <=>
               \/ Val(result.source) \in {"arg", "pid", "tui", "history"}
               \/ args.resume_hint
               \/ args.follow_global
               \/ result.handed_over
        /\ (/\ Val(result.source) = "session_dir" /\ ~args.resume_hint
            /\ ~args.follow_global /\ ~result.handed_over /\ ~result.history_seen)
               => result.initial_title = None

\* A log found by pid alone, whose session the history index does not
\* hold, has been scanned and has given an initial title.
C24_Witness ==
    /\ pc = "tailing"
    /\ result.source = Some("pid")
    /\ ~args.resume_hint /\ ~args.follow_global /\ ~result.handed_over
    /\ ~result.history_seen
    /\ result.initial_title = Some("running")
    /\ title = "running"

\* C26: a log that does not exist when tailing begins does not end the
\* watcher thread: the thread ends only once cancellation was requested.
\* (As stated; start_watcher._run does not satisfy it.)
C26_AsStated ==
    pc \in {"stopped", "crashed"} => world.stop_event

(***************************************************************************)
(* The inactivity fallback of maybe_switch.                                *)
(***************************************************************************)
\* The monitor as the reader may hand it to maybe_switch next: after a
\* sleep of the follow loop, or after a line that was skipped, admitted,
\* or admitted as a resume command.
EnteringChecks ==
    {SwitchAdvance(switch, d) : d \in ReaderSleeps}
    \cup {switch, note_activity(switch),
          [note_activity(switch) EXCEPT !.allow_external_switch = TRUE]}

\* A call of maybe_switch that requests a handover by the fallback: the
\* resume notice and the history index pin what they choose, the fallback
\* does not.
FellBack(before) ==
    /\ before.next_path = None
    /\ maybe_switch(before, world).next_path # None
    /\ maybe_switch(before, world).pinned_path = None

FallbackTarget(before) == Val(maybe_switch(before, world).next_path)

\* The conditions under which the fallback is reached, and the target is
\* a log other than the tailed one, modified later than it.
FallbackReached(before) ==
    /\ before.allow_external_switch
    /\ _tui_resume_candidate(before, world).candidate = None
    /\ _history_candidate(before, world).candidate = None
    /\ before.pinned_path = None
    /\ before.since_activity >= SwitchAfter
    /\ FallbackTarget(before) # before.log_path
    /\ \E i \in 1..Len(world.files) :
          /\ world.files[i].path = FallbackTarget(before)
          /\ world.files[i].mtime > CurrentMtime(before, world.files)

NewHistoryLines(before) ==
    IF world.history = None THEN {}
    ELSE {i \in 1..Len(Val(world.history)) : i > before.history_offset}

\* The line names a session other than the tailed log's, and a log of
\* that session exists under the sessions root.
NamesOtherLog(before, i) ==
    LET line == Val(world.history)[i]
    IN  /\ line.sid # NoneStr
        /\ Some(line.sid) # before.session_id
        /\ \E k \in 1..Len(world.files) : world.files[k].sid = line.sid

\* The line carries a time the clock-skew test accepts that lies more
\* than a second before the watcher's start.
StaleHistoryLine(before, i) ==
    LET line == Val(world.history)[i]
    IN  /\ line.ts # None
        /\ _timestamp_trustworthy(line.ts, before.start_time)
        /\ Val(line.ts) < before.start_time - 1

\* The checks maybe_switch lets through.
OpenChecks ==
    {before \in EnteringChecks :
        /\ before.allow_external_switch
        /\ before.since_check >= SwitchCheckGap
        /\ before.next_path = None}

WaitHistoryLog ==
    LET latest_id == IF world.history = None THEN None
                     ELSE _latest_history_session_id(Val(world.history))
    IN  IF latest_id # None /\ Val(latest_id) # ""
        THEN _find_log_by_session_id(world.files, Val(latest_id), args.cwd)
        ELSE None

\* C30 as stated: an iteration of wait_for_log in which neither the pid
\* nor the resume notice gives a log, while the most recent session id of
\* the history index resolves to an existing log, returns that log with
\* provenance 'history'.  (wait_for_log does not satisfy it.)
C30_AsStated ==
    (pc = "wait" /\ ~world.stop_event) =>
        LET it == WaitIteration(wait, args, world)
            by_signal == /\ it.result # None
                         /\ Val(it.result)[2] \in {Some("pid"), Some("tui")}
        IN  (~by_signal /\ WaitHistoryLog # None)
                => it.result = Some(Found(WaitHistoryLog, "history"))

\* C27: once stop_event is set, the watcher thread ends, whatever it is
\* doing: locating the log, setting the initial title, opening the log,
\* passing over the lines already in the file, following the file, or
\* handing over to another log.  (The thread ends by returning, or by the
\* exception of a log that cannot be opened.)
C27_CancellationStops ==
    world.stop_event ~> pc \in {"stopped", "crashed"}

\* stop_event was set while the reader was passing over lines already in
\* the file, and the thread has returned.
C27_Witness ==
    /\ pc = "stopped"
    /\ world.stop_event
    /\ result.path # None
    /\ result.unread = 1

(***************************************************************************)
(* The reader's position in the file: start_watcher._run takes the size    *)
(* of the log as start_offset (cli.py:1278-1281) and iter_jsonl, opening   *)
(* the log later, seeks to it and drops the rest of the line it lands in   *)
(* (cli.py:477-486).  A file is a sequence of lines: "ascii" lines of one  *)
(* one-byte character and a newline, and "wide" lines of one two-byte      *)
(* character and a newline; the decoder fails when it starts at the second *)
(* byte of the character.  world.lines is the file, result the offset,     *)
(* the reader's position and the lines it has yielded.                     *)
(***************************************************************************)
\* The bytes of a line, its newline included.
AsciiBytes == 2
WideBytes == 3
\* The file holds at most this many lines.
MaxLines == 3

LineKindsOfFile == {"ascii", "wide"}

LineLen(kind) == IF kind = "wide" THEN WideBytes ELSE AsciiBytes

RECURSIVE FileSize(_)
FileSize(lines) ==
    IF lines = <<>> THEN 0
    ELSE FileSize(SubSeq(lines, 1, Len(lines) - 1)) + LineLen(lines[Len(lines)])

\* The line that holds the byte at the offset, and the offset of its
\* first byte.
LineAt(lines, offset) ==
    CHOOSE i \in 1..Len(lines) :
        /\ FileSize(SubSeq(lines, 1, i - 1)) <= offset
        /\ offset < FileSize(SubSeq(lines, 1, i))

LineStart(lines, i) == FileSize(SubSeq(lines, 1, i - 1))

\* The decoder starts inside the two-byte character of a wide line.
SplitsCharacter(lines, offset) ==
    /\ offset < FileSize(lines)
    /\ lines[LineAt(lines, offset)] = "wide"
    /\ offset - LineStart(lines, LineAt(lines, offset)) = 1

\* handle.seek(offset); handle.readline() (lines 481-482): the position
\* after the call, or None when the decoder raises.  Past the end of the
\* file the seek succeeds and readline returns the empty string.
SeekAndReadline(lines, offset) ==
    IF offset >= FileSize(lines) THEN Some(offset)
    ELSE IF SplitsCharacter(lines, offset) THEN None
    ELSE Some(FileSize(SubSeq(lines, 1, LineAt(lines, offset))))

\* The position at which iter_jsonl begins to read (lines 478-486).
OpenPosition(lines, start_offset) ==
    IF start_offset = None THEN 0
    ELSE IF Val(start_offset) > 0
    THEN LET landed == SeekAndReadline(lines, Val(start_offset))
         IN  IF landed = None THEN 0 ELSE Val(landed)
    ELSE 0

InitTail ==
    /\ pc = "stat"
    /\ TurnsResting
    /\ wait = NoWait
    /\ switch = NoSwitch
    /\ args \in [start_offset : {"size", "none"}]
    /\ result = [start_offset |-> None, pos |-> 0, yielded |-> <<>>]
    /\ \E n \in 0..MaxLines : \E lines \in [1..n -> LineKindsOfFile] :
          world = [lines |-> lines]

\* path.stat().st_size (lines 1278-1279), or no offset at all (watch_log
\* called with start_offset None).
TailStat ==
    /\ pc = "stat"
    /\ result' = [result EXCEPT
                     !.start_offset = IF args.start_offset = "size"
                                      THEN Some(FileSize(world.lines))
                                      ELSE None]
    /\ pc' = "opening"
    /\ UNCHANGED <<turns, args, wait, switch, world>>

\* The writer appends a line.
TailAppended(kind) ==
    /\ pc \in {"opening", "reading"}
    /\ Len(world.lines) < MaxLines
    /\ world' = [world EXCEPT !.lines = Append(@, kind)]
    /\ UNCHANGED <<pc, turns, args, result, wait, switch>>

\* The file is cut back to its first n lines before the reader opens it.
TailTruncated(n) ==
    /\ pc = "opening"
    /\ n < Len(world.lines)
    /\ world' = [world EXCEPT !.lines = SubSeq(@, 1, n)]
    /\ UNCHANGED <<pc, turns, args, result, wait, switch>>

\* iter_jsonl opens the file and takes its position (lines 477-486).
TailOpen ==
    /\ pc = "opening"
    /\ result' = [result EXCEPT
                     !.pos = OpenPosition(world.lines, result.start_offset)]
    /\ pc' = "reading"
    /\ UNCHANGED <<turns, args, wait, switch, world>>

\* The reader reads a line (lines 487, 501): from the start of a line the
\* whole line, which it yields; from inside a line its rest, which does
\* not parse; from inside a character nothing, the decoder's exception
\* ends the reader.
TailReadLine ==
    /\ pc = "reading"
    /\ result.pos < FileSize(world.lines)
    /\ LET i == LineAt(world.lines, result.pos)
       IN  IF SplitsCharacter(world.lines, result.pos)
           THEN pc' = "crashed" /\ UNCHANGED result
           ELSE /\ pc' = pc
                /\ result' = [result EXCEPT
                                 !.pos = FileSize(SubSeq(world.lines, 1, i)),
                                 !.yielded =
                                     IF result.pos = LineStart(world.lines, i)
                                     THEN Append(@, i) ELSE @]
    /\ UNCHANGED <<turns, args, wait, switch, world>>

NextTail ==
    \/ TailStat
    \/ \E kind \in LineKindsOfFile : TailAppended(kind)
    \/ \E n \in 0..MaxLines : TailTruncated(n)
    \/ TailOpen
    \/ TailReadLine

SpecTail == InitTail /\ [][NextTail]_vars

\* C28 as stated: when the file is shorter than the recorded offset at
\* the moment the reader opens it, the reader begins at offset zero.
\* (iter_jsonl does not satisfy it.)
C28_AsStated ==
    (/\ pc = "opening"
     /\ result.start_offset # None
     /\ Val(result.start_offset) > FileSize(world.lines))
    => OpenPosition(world.lines, result.start_offset) = 0

(***************************************************************************)
(* The admission rule of the reader: _should_emit (cli.py:534-542).  An    *)
(* event carries its timestamp field as a stamp: str tells whether the     *)
(* field is a string, value what datetime.fromisoformat makes of it.       *)
(***************************************************************************)
\* _parse_timestamp (cli.py:208-220).
_parse_timestamp(event) ==
    IF ~event.timestamp.str THEN None ELSE event.timestamp.value

\* Faulty variant of _should_emit: a timestamp outside the tolerance is
\* compared with the floor like any other.
_should_emit_Strict(event, start_time) ==
    IF start_time = None THEN TRUE
    ELSE IF _parse_timestamp(event) = None THEN FALSE
    ELSE Val(_parse_timestamp(event)) >= Val(start_time)

_should_emit(event, start_time) ==
    IF start_time = None THEN TRUE
    ELSE IF _parse_timestamp(event) = None THEN FALSE
    ELSE IF ~_timestamp_trustworthy(_parse_timestamp(event), Val(start_time))
    THEN TRUE
    ELSE Val(_parse_timestamp(event)) >= Val(start_time)

\* The floors and the timestamps tried: at, next to and far from the
\* floors, and at and next to the edges of the tolerance around them.
EmitFloor == 1000
EmitFloors == {None, Some(EmitFloor - 1), Some(EmitFloor), Some(EmitFloor + 1)}
EmitTimes ==
    {0, EmitFloor - _CLOCK_SKEW_SECS - 1, EmitFloor - _CLOCK_SKEW_SECS,
     EmitFloor - _CLOCK_SKEW_SECS + 1, EmitFloor - 1, EmitFloor,
     EmitFloor + 1, EmitFloor + _CLOCK_SKEW_SECS - 1,
     EmitFloor + _CLOCK_SKEW_SECS, EmitFloor + _CLOCK_SKEW_SECS + 1,
     2 * EmitFloor}
EmitStamps == {NoStamp, Garbled} \cup {Stamp(t) : t \in EmitTimes}

InitEmit ==
    /\ pc = "call"
    /\ Resting
    /\ args \in [event : [timestamp : EmitStamps], start_time : EmitFloors]
    /\ result = <<>>

CallShouldEmit ==
    /\ pc = "call"
    /\ result' = _should_emit(args.event, args.start_time)
    /\ pc' = "return"
    /\ UNCHANGED <<watcher, args>>

NextEmit == CallShouldEmit

SpecEmit == InitEmit /\ [][NextEmit]_vars

\* C31: with no start-time floor every event is admitted; with a floor,
\* an event without a parseable timestamp is rejected, an event whose
\* timestamp lies outside the clock-skew tolerance of the floor is
\* admitted, and an event whose timestamp lies within it is admitted
\* exactly when the timestamp is at or after the floor.
C31_AdmissionRule ==
    pc = "return" =>
        LET stamp == args.event.timestamp
            floor == args.start_time
            parsed == stamp.str /\ stamp.value # None
            distance == IF Val(stamp.value) >= Val(floor)
                        THEN Val(stamp.value) - Val(floor)
                        ELSE Val(floor) - Val(stamp.value)
        IN  /\ floor = None => result = TRUE
            /\ (floor # None /\ ~parsed) => result = FALSE
            /\ (floor # None /\ parsed /\ distance > _CLOCK_SKEW_SECS)
                  => result = TRUE
            /\ (floor # None /\ parsed /\ distance <= _CLOCK_SKEW_SECS)
                  => (result = TRUE <=> Val(stamp.value) >= Val(floor))

\* An event stamped long before the floor, outside the tolerance, has
\* been admitted.
C31_Witness ==
    /\ pc = "return"
    /\ args.start_time = Some(EmitFloor)
    /\ args.event.timestamp = Stamp(EmitFloor - _CLOCK_SKEW_SECS - 1)
    /\ result = TRUE

(***************************************************************************)
(* The idle heartbeat of the reader (iter_jsonl, cli.py:487-524), with     *)
(* the monotonic clock in tenths of a second.  result.since_idle is        *)
(* now - last_idle; result.since_event is the time since the last          *)
(* admitted event or the previous heartbeat, whichever is later (the       *)
(* reader's start when there is neither); both are kept up to BeatCap.     *)
(* What maybe_switch decides is an input here: switched tells that it set  *)
(* next_path in this pass.                                                 *)
(***************************************************************************)
\* time.sleep(0.1) (cli.py:503), in tenths of a second.
FollowSleep == 1
\* The intervals watch_log can pass: min(0.5, max(0.1, idle_timeout / 2))
\* (cli.py:1114-1115), in tenths of a second, None for idle_timeout <= 0;
\* and 0, which iter_jsonl treats like None.
BeatIntervals == {None, Some(0), Some(1), Some(5)}
\* Times since an instant are kept up to this many tenths.
BeatCap == 7
\* What a pass may take beyond the sleep.
BeatDelays == {0, 1, 5}

Configured(idle_interval) == idle_interval # None /\ Val(idle_interval) > 0

\* Faulty variant of IdlePoll: a heartbeat at every pass that finds no
\* line.
IdlePoll_EveryPass(r, idle_interval, d, switched) ==
    LET since == Saturate(r.since_idle + FollowSleep + d, BeatCap)
        quiet == Saturate(r.since_event + FollowSleep + d, BeatCap)
    IN  IF switched
        THEN [event |-> "none", since_idle |-> since, since_event |-> quiet,
              returned |-> TRUE]
        ELSE IF Configured(idle_interval)
        THEN [event |-> "_idle", since_idle |-> 0, since_event |-> 0,
              returned |-> FALSE]
        ELSE [event |-> "none", since_idle |-> since, since_event |-> quiet,
              returned |-> FALSE]

\* A pass of the follow loop that finds no line (lines 501-513): the
\* sleep, the switch check, then the heartbeat when the interval has
\* passed since last_idle.
IdlePoll(r, idle_interval, d, switched) ==
    LET since == Saturate(r.since_idle + FollowSleep + d, BeatCap)
        quiet == Saturate(r.since_event + FollowSleep + d, BeatCap)
    IN  IF switched
        THEN [event |-> "none", since_idle |-> since, since_event |-> quiet,
              returned |-> TRUE]
        ELSE IF Configured(idle_interval) /\ since >= Val(idle_interval)
        THEN [event |-> "_idle", since_idle |-> 0, since_event |-> 0,
              returned |-> FALSE]
        ELSE [event |-> "none", since_idle |-> since, since_event |-> quiet,
              returned |-> FALSE]

\* A pass that reads a line (lines 487-498, 514-524), d after the pass
\* before: an admitted line is yielded and sets last_idle, then the switch
\* check.
IdleLine(r, idle_interval, d, admitted, switched) ==
    LET since == Saturate(r.since_idle + d, BeatCap)
        quiet == Saturate(r.since_event + d, BeatCap)
    IN  [event |-> IF admitted THEN "event" ELSE "none",
         since_idle |-> IF admitted /\ Configured(idle_interval) THEN 0
                        ELSE since,
         since_event |-> IF admitted THEN 0 ELSE quiet,
         returned |-> switched]

InitBeat ==
    /\ pc = "existing"
    /\ TurnsResting
    /\ wait = NoWait
    /\ switch = NoSwitch
    /\ world = NoWorld
    /\ args \in [idle_interval : BeatIntervals]
    /\ result = [event |-> "none", since_idle |-> 0, since_event |-> 0,
                 returned |-> FALSE]

\* The pass over the lines already in the file.
BeatExistingLine(d, admitted, switched) ==
    /\ pc = "existing"
    /\ result' = IdleLine(result, args.idle_interval, d, admitted, switched)
    /\ pc' = IF switched THEN "handover" ELSE "existing"
    /\ UNCHANGED <<turns, args, wait, switch, world>>

\* The end of the file: last_idle = time.monotonic() (line 499).
BeatFollowStart(d) ==
    /\ pc = "existing"
    /\ result' = [result EXCEPT
                     !.event = "none", !.since_idle = 0,
                     !.since_event = Saturate(@ + d, BeatCap)]
    /\ pc' = "follow"
    /\ UNCHANGED <<turns, args, wait, switch, world>>

BeatFollowLine(d, admitted, switched) ==
    /\ pc = "follow"
    /\ result' = IdleLine(result, args.idle_interval, d, admitted, switched)
    /\ pc' = IF switched THEN "handover" ELSE "follow"
    /\ UNCHANGED <<turns, args, wait, switch, world>>

BeatPoll(d, switched) ==
    /\ pc = "follow"
    /\ result' = IdlePoll(result, args.idle_interval, d, switched)
    /\ pc' = IF switched THEN "handover" ELSE "follow"
    /\ UNCHANGED <<turns, args, wait, switch, world>>

NextBeat ==
    \/ \E d \in BeatDelays, admitted, switched \in BOOLEAN :
          BeatExistingLine(d, admitted, switched)
    \/ \E d \in BeatDelays : BeatFollowStart(d)
    \/ \E d \in BeatDelays, admitted, switched \in BOOLEAN :
          BeatFollowLine(d, admitted, switched)
    \/ \E d \in BeatDelays, switched \in BOOLEAN : BeatPoll(d, switched)

SpecBeat == InitBeat /\ [][NextBeat]_vars

\* C32: in the follow phase, with an interval configured, a pass that
\* finds no line and does not hand over emits _idle exactly when the
\* interval has passed since last_idle; a heartbeat never comes sooner
\* than one interval after the last admitted event or the previous
\* heartbeat; a pass that reads a line emits none; and none is ever
\* emitted when no interval is configured.
C32_Heartbeat ==
    /\ result.event = "_idle" =>
          /\ pc = "follow"
          /\ Configured(args.idle_interval)
          /\ result.since_event = 0
    /\ Configured(args.idle_interval) => result.since_event >= result.since_idle
    /\ pc = "follow" =>
          \A d \in BeatDelays, switched \in BOOLEAN :
              LET step == IdlePoll(result, args.idle_interval, d, switched)
                  quiet == Saturate(result.since_event + FollowSleep + d, BeatCap)
                  since == Saturate(result.since_idle + FollowSleep + d, BeatCap)
              IN  /\ step.event = "_idle" =>
                        /\ Configured(args.idle_interval)
                        /\ quiet >= Val(args.idle_interval)
                        /\ ~switched
                  /\ (/\ Configured(args.idle_interval)
                      /\ ~switched
                      /\ since >= Val(args.idle_interval))
                        => step.event = "_idle"
                  /\ \A admitted \in BOOLEAN :
                        IdleLine(result, args.idle_interval, d, admitted,
                                 switched).event # "_idle"

\* A heartbeat has been emitted under the half-second interval.
C32_Witness ==
    /\ pc = "follow"
    /\ args.idle_interval = Some(5)
    /\ result.event = "_idle"

\* C33: with external-switch following not allowed, a log wait_for_log
\* returns with provenance 'session_dir' is never one that was in the
\* session directory when wait_for_log began: it is a file of the session
\* directory that appeared afterwards, modified no earlier than one
\* second before start_time.
C33_OnlyNewSessionDirLogs ==
    (/\ pc = "located"
     /\ result # NotFound
     /\ result[2] = Some("session_dir")
     /\ ~args.allow_external_switch)
    => /\ Val(result[1]) \notin wait.existing
       /\ \E i \in 1..Len(world.files) :
             /\ world.files[i].path = Val(result[1])
             /\ world.files[i].where = "dir"
             /\ world.files[i].mtime >= args.start_time - 1

\* A log that appeared while wait_for_log was waiting, modified one second
\* before start_time, has been returned, although a log modified at
\* start_time was in the directory from the beginning.
C33_Witness ==
    /\ pc = "located"
    /\ ~args.allow_external_switch
    /\ result = Found(Some("c.jsonl"), "session_dir")
    /\ wait.existing = {"a.jsonl"}
    /\ world.files[1] = FreshLog
    /\ \E i \in 1..Len(world.files) :
          /\ world.files[i].path = "c.jsonl"
          /\ world.files[i].mtime = args.start_time - 1

\* C34 as stated: no line is lost between the capture of the offset and
\* the start of the tail: every complete line that lies at or beyond the
\* recorded offset and that the reader has passed has been yielded.
\* (iter_jsonl does not satisfy it.)
C34_AsStated ==
    (pc = "reading" /\ result.start_offset # None) =>
        \A i \in 1..Len(world.lines) :
            (/\ LineStart(world.lines, i) >= Val(result.start_offset)
             /\ result.pos >= FileSize(SubSeq(world.lines, 1, i)))
            => \E k \in 1..Len(result.yielded) : result.yielded[k] = i

(***************************************************************************)
(* The end of main (cli.py:1492-1500): after the wrapped process has       *)
(* exited, a terminal title is written unless DoneState.seen is set.       *)
(***************************************************************************)
\* The title on the terminal after the finally block of main.
ExitTitle(last_title, seen, no_commit) ==
    IF ~seen THEN (IF no_commit THEN "no_commit" ELSE "done")
    ELSE last_title

\* C35 as stated: after the wrapped process has exited, the last title
\* written is a terminal one (done or no-commit), never the running or
\* the new title, also when an earlier turn had finished and a later turn
\* was still open at the exit.  (main does not satisfy it.)
C35_AsStated ==
    pc = "tail" =>
        ExitTitle(title, done_seen, no_commit_title) \in {"done", "no_commit"}

(***************************************************************************)
(* A turn the scan found open, seen from the live tail.  watch_log starts  *)
(* with pending_user = False whatever the scan found (line 1102), so the   *)
(* state "running title, no turn open in watch_log, real user confirmed"   *)
(* is the one where the scan set the running title and the live lines so   *)
(* far neither opened nor closed a turn.                                   *)
(***************************************************************************)
\* C36 as stated: when the scan found the turn open (initial title
\* running) and the live lines since were response activity only, with no
\* tool call pending, the idle tick after the idle timeout writes the done
\* or the no-commit title.  (watch_log does not satisfy it.)
C36_AsStated ==
    (/\ pc = "tail"
     /\ title = "running"
     /\ ~watch.pending_user
     /\ watch.real_user_seen
     /\ watch.pending_tool_calls = {}
     /\ watch.last_response_activity # None
     /\ mono - Val(watch.last_response_activity) >= _IDLE_DONE_SECS)
    => \A git_ok \in BOOLEAN :
          WatchIdle(watch, no_commit_title, mono,
                    IF git_ok THEN Some(head) ELSE None).wrote
              \in {Some("done"), Some("no_commit")}

(***************************************************************************)
(* The historical scan and the live tail side by side: _collect_log_state  *)
(* and watch_log read the same lines from the start of a log, with the     *)
(* same history confirmation (the session id is known and the history      *)
(* index holds it, or does not, for the whole run).                        *)
(***************************************************************************)
InitTwin ==
    /\ pc = "twin"
    /\ session_id = Some("s1")
    /\ history_has \in BOOLEAN
    /\ no_commit_title = FALSE
    /\ scan = ScanInit(history_has)
    /\ watch = WatchInit(history_has, FALSE, FALSE)
    /\ title = "new"
    /\ done_seen = FALSE
    /\ mono = 0
    /\ head = 0
    /\ story = <<>>
    /\ args = <<>>
    /\ result = <<>>
    /\ LocatorResting

\* Both passes consume the line e: one iteration of the scan's loop
\* (lines 568-622) and one of watch_log's (lines 1165-1242).
TwinLine(e) ==
    /\ pc = "twin"
    /\ scan' = ScanEvent(scan, e)
    /\ WatchApply(WatchEvent(watch, e, no_commit_title, mono, Some(head),
                             history_has))
    /\ UNCHANGED <<call, pc, env, mono, head, story>>

NextTwin == \E e \in Events : TwinLine(e)

SpecTwin == InitTwin /\ [][NextTwin]_vars

\* C37 as stated: after the same lines, read from the start with the same
\* history confirmation, the scan and the live tail agree on whether a
\* turn is open (pending_user) and on the commit flag a turn close would
\* report (turn_commit_seen).  (The two passes do not satisfy it.)
C37_AsStated ==
    pc = "twin" =>
        /\ scan.pending_user = watch.pending_user
        /\ scan.turn_commit_seen = watch.turn_commit_seen

(***************************************************************************)
(* _collect_log_state as a function of the whole log: the loop over the    *)
(* lines, then the idle fallback with time.time() = now.                   *)
(***************************************************************************)
RECURSIVE CollectLoop(_, _)
CollectLoop(s, lines) ==
    IF lines = <<>> THEN s
    ELSE CollectLoop(ScanEvent(s, Head(lines)), Tail(lines))

_collect_log_state(lines, history_seen, now) ==
    ScanIdleFallback(CollectLoop(ScanInit(history_seen), lines), now)

MaxLogLen == 4

\* Timestamped lines: a user message, an agent message, a reasoning item.
StampedLines ==
    {[e EXCEPT !.ts = Some(t)] :
        e \in {[Ev("event_msg", "user_message") EXCEPT !.text = Some(HelloText)],
               Ev("event_msg", "agent_message"),
               Ev("response_item", "reasoning")},
        t \in 0..MaxTs}

StampedLogs == UNION {[1..n -> StampedLines] : n \in 0..MaxLogLen}

\* time.time() at the end of the scan: before and after the idle timeout.
CollectNows == {0, _IDLE_DONE_SECS + MaxTs}

InitCollect ==
    /\ pc = "call"
    /\ Resting
    /\ args \in [lines : StampedLogs, history_seen : BOOLEAN, now : CollectNows]
    /\ result = <<>>

CallCollect ==
    /\ pc = "call"
    /\ result' = _collect_log_state(args.lines, args.history_seen, args.now)
    /\ pc' = "return"
    /\ UNCHANGED <<watcher, args>>

NextCollect == CallCollect

SpecCollect == InitCollect /\ [][NextCollect]_vars

NonDecreasing(lines) ==
    \A i \in 1..Len(lines) : \A j \in i..Len(lines) :
        Val(lines[i].ts) <= Val(lines[j].ts)

\* C38 as stated: for a log with non-decreasing timestamps, when the scan
\* reports a closed turn with both timestamps set, last_assistant_ts is not
\* earlier than last_user_ts, also when the idle fallback closed the turn
\* after an earlier turn had ended with an assistant message.
\* (_collect_log_state does not satisfy it.)
C38_AsStated ==
    (/\ pc = "return"
     /\ NonDecreasing(args.lines)
     /\ ~result.pending_user /\ result.seen_assistant
     /\ result.last_user_ts # None /\ result.last_assistant_ts # None)
    => Val(result.last_assistant_ts) >= Val(result.last_user_ts)

\* C39: with global resume-following disabled (the monitor starts with
\* allow_external_switch false), no handover target is set and the reader
\* stays on the log it was started on for as long as no resume command has
\* been admitted from that log, whatever is written to the companion log,
\* the history index or the session tree; and only the admission of a
\* resume command turns allow_external_switch on.
C39_NoHandoverBeforeResume ==
    /\ [](~switch.allow_external_switch =>
            /\ switch.next_path = None
            /\ switch.log_path = TailedLog.path
            /\ pc = "follow"
            /\ maybe_switch([switch EXCEPT !.since_check = SwitchCheckGap],
                            world).next_path = None)
    /\ [][(~switch.allow_external_switch /\ switch'.allow_external_switch)
            => result'.event = "resume"]_vars

\* The monitor is off, the reader has polled up to a heartbeat, and other
\* sessions have written a resume notice, a history line and a log that a
\* check would hand over to if external switching were allowed.
C39_Witness ==
    /\ pc = "follow"
    /\ ~args.allow_external_switch
    /\ ~switch.allow_external_switch
    /\ result.event = "_idle"
    /\ world.tui_log # <<>>
    /\ world.history # None /\ Val(world.history) # <<>>
    /\ Len(world.files) > 1
    /\ maybe_switch(Unthrottled(switch), world).next_path # None

(***************************************************************************)
(* Handovers: the loop of start_watcher._run (cli.py:1276-1319) around the *)
(* reader and its switch monitor.  Each watch_log builds a new SwitchState *)
(* for the log it is given (cli.py:1116-1122), with allow_external_switch  *)
(* = _FOLLOW_GLOBAL_RESUME (line 1261).  What other sessions write is      *)
(* bounded (MaxTuiWrites, MaxHistory, MaxFiles), and so is the number of   *)
(* lines appended to the logs that are read.                               *)
(***************************************************************************)
\* The logs that are read receive at most this many lines in all.
MaxTailLines == 1
\* The handovers made are counted up to this number (result.handovers).
MaxHandovers == 2

\* The log another session creates, newer than the first log, and the
\* lines the sessions append to the history index.
HandOtherLog == LogFile("b.jsonl", SwitchStartTime + 1, "s2", "tree", <<Meta("here", NoStamp)>>)
HandHistoryLines == {HistoryEntry("s1", None), HistoryEntry("s2", None)}

InitHand ==
    /\ pc = "follow"
    /\ TurnsResting
    /\ wait = NoWait
    /\ args \in [follow_global : BOOLEAN, cwd : {"here"},
                 start_time : {SwitchStartTime}]
    /\ result = [event |-> "none", since_idle |-> 0, unread |-> MaxTailLines,
                 handovers |-> 0]
    /\ \E history \in {None, Some(<<>>)} :
          /\ world = [files |-> <<TailedLog>>, tui_log |-> <<>>,
                      tui_mtime |-> 0, history |-> history, pid_log |-> None]
          /\ switch = SwitchInit(TailedLog.path, Some(TailedLog.sid),
                                 args.start_time, args.cwd,
                                 args.follow_global, history)

\* The reader reads a line appended to the log.
HandLine(kind) ==
    /\ pc = "follow"
    /\ result.unread > 0
    /\ LET step == ReadLine(switch, world, kind)
       IN  /\ switch' = step.switch
           /\ result' = [event |-> step.event,
                         since_idle |-> IF step.event = "none"
                                        THEN result.since_idle ELSE 0,
                         unread |-> result.unread - 1,
                         handovers |-> result.handovers]
           /\ pc' = ReaderAfter(step.switch)
    /\ UNCHANGED <<turns, args, wait, world>>

\* The reader finds no line, sleeps and polls.
HandPoll(d) ==
    /\ pc = "follow"
    /\ LET step == PollStep(switch, world, result.since_idle, d)
       IN  /\ switch' = step.switch
           /\ result' = [event |-> step.event,
                         since_idle |->
                             IF step.event = "_idle" THEN 0
                             ELSE Saturate(result.since_idle + d,
                                           IdleInterval),
                         unread |-> result.unread,
                         handovers |-> result.handovers]
           /\ pc' = ReaderAfter(step.switch)
    /\ UNCHANGED <<turns, args, wait, world>>

\* watch_log has returned next_path (line 1243): _run goes on with that
\* log (lines 1315-1318) or ends (1319); the next watch_log builds its
\* SwitchState and the reader opens the log, which raises for a missing
\* file (line 477).
HandOver ==
    /\ pc = "handover"
    /\ LET next == Val(switch.next_path)
           found == {i \in 1..Len(world.files) : world.files[i].path = next}
       IN  IF next = switch.log_path
           THEN pc' = "stopped" /\ UNCHANGED <<switch, result>>
           ELSE IF found = {}
           THEN pc' = "crashed" /\ UNCHANGED <<switch, result>>
           ELSE /\ switch' = SwitchInit(next,
                                        Some(world.files[CHOOSE i \in found : TRUE].sid),
                                        args.start_time, args.cwd,
                                        args.follow_global, world.history)
                /\ result' = [result EXCEPT
                                 !.event = "none", !.since_idle = 0,
                                 !.handovers = Saturate(@ + 1, MaxHandovers)]
                /\ pc' = "follow"
    /\ UNCHANGED <<turns, args, wait, world>>

NextHand ==
    \/ \E kind \in LineKinds : HandLine(kind)
    \/ \E d \in ReaderSleeps : HandPoll(d)
    \/ HandOver
    \/ \E path \in {"a.jsonl", "b.jsonl"} : SwitchNotice(path)
    \/ \E line \in HandHistoryLines : SwitchHistoryAppend(line)
    \/ SwitchLogCreated(HandOtherLog)

SpecHand == InitHand /\ [][NextHand]_vars

\* The steps of the watcher thread, which is scheduled.
HandThread ==
    \/ \E kind \in LineKinds : HandLine(kind)
    \/ \E d \in ReaderSleeps : HandPoll(d)
    \/ HandOver

SpecHandFair == SpecHand /\ WF_vars(HandThread)

\* C40: handovers stabilise.  When only finitely many lines, resume
\* notices, history lines and logs are written, the log being read changes
\* only finitely often, and from some point on the reader follows one log
\* for good.
C40_HandoversStabilise ==
    /\ <>[][switch'.log_path = switch.log_path]_vars
    /\ <>[](pc = "follow")

\* The watcher has gone from the first log to another and come back (a
\* history line named the other session, a notice names the first log).
C40_Witness ==
    /\ pc = "follow"
    /\ switch.log_path = TailedLog.path
    /\ switch.pinned_path = Some(TailedLog.path)
    /\ result.handovers = 2
    /\ result.event = "_idle"
    /\ args.follow_global

====
